---- MODULE Spec2Model ----
(***************************************************************************)
(* A model of the Vatix trading backend:                                   *)
(*   - the in-memory OrderBook (price levels, sorted price lists, the      *)
(*     iterateOrders generator),                                           *)
(*   - the POST /orders submit handler (admission lock, database           *)
(*     transaction, order-book cache, trades, positions),                  *)
(*   - the AuditService (Redis streams), DatabaseService.transaction and   *)
(*     the order-creation route (validation, then order.create).           *)
(* Prices are integers in ticks of 1/PriceScale, so that the open          *)
(* interval (0,1) of the source is 1 .. PriceScale-1.                      *)
(***************************************************************************)
EXTENDS Integers, Sequences, FiniteSets, TLC

\* ------------------------------------------------------------------ bounds
\* price ticks: a price p stands for p / PriceScale
PriceScale == 3
\* largest quantity of a submitted or added order
MaxQty == 2
\* order ids available to the OrderBook driver
MaxBookId == 3

Users == {"u1", "u2"}
BookSides == {"bid", "ask"}
BookMarkets == {"m1", "m2"}
BookOutcomes == {"YES", "NO"}
BookPrices == 1 .. (PriceScale - 1)
BookIds == 1 .. MaxBookId

VARIABLES
    book,       \* the OrderBook instance under test
    lastBookId, \* the driver hands out order ids in increasing order: the id of
                \* an order is also its arrival stamp
    gen,        \* the iterateOrders generator object held by the consumer
    yielded,    \* ids the generator has yielded so far
    snap,       \* what the book held, in priority order, when the iteration began
    walk,       \* a taker being matched by walking the generator
    cache,      \* the order-book cache of (m1, YES) the submit handler works on
    marketStatus, \* status of the Market row m1 (no handler changes it)
    orders,     \* committed Order rows, by id
    trades,     \* committed Trade rows, in commit order
    positions,  \* committed Position rows of (m1, YES), by user
    nextOrderId, \* the next id generateOrderId() returns
    lock,       \* the admission lock keys order:lock:<user>:m1, by user
    audit,      \* the audit streams audit:market:m1 and audit:global (the
                \* submit handler never appends to them)
    pc,         \* where each request handler is
    req,        \* the request each handler is serving
    tx,         \* the transaction (and receipt data) of each handler
    streams,    \* the Redis streams the AuditService appends to, by key
    clock,      \* the Redis server's clock (ms), used by XADD *
    calls,      \* number of logOrderMatch calls made so far
    lastCall,   \* the last logOrderMatch call: its trade and how it ended
    query,      \* the last query of the AuditService and what it returned
    txn,        \* a DatabaseService.transaction call: closure, attempts, result
    market,     \* the Market row the order-creation route reads
    now,        \* the wall clock (ms) the order-creation route compares end times to
    created,    \* Order rows written by the order-creation route
    h7,         \* the order-creation route's request handler
    db,         \* rows of the Market, Order and UserPosition tables the seed
                \* script writes, as counts
    seeded,     \* the seed() runs so far and how the last one went
    retry,      \* an AuditLogService call going through retryWithBackoff
    logged      \* entries logTrade has appended to its stream

bookVars == <<book, lastBookId, gen, yielded, snap, walk>>
submitVars == <<cache, marketStatus, orders, trades, positions, nextOrderId,
                lock, audit, pc, req, tx>>
auditVars == <<streams, clock, calls, lastCall, query>>
txnVars == <<txn>>
createVars == <<market, now, created, h7>>
seedVars == <<db, seeded>>
retryVars == <<retry, logged>>
toolVars == <<seedVars, retryVars>>
serviceVars == <<auditVars, txnVars, createVars, toolVars>>
vars == <<bookVars, submitVars, serviceVars>>

\* ------------------------------------------------------- JS Map / Array
MapSet(m, k, v) == [x \in (DOMAIN m) \cup {k} |-> IF x = k THEN v ELSE m[x]]
MapDelete(m, k) == [x \in (DOMAIN m) \ {k} |-> m[x]]
EmptyMap == [x \in {} |-> x]

\* Array.prototype.findIndex / indexOf, 1-based, 0 when absent
RECURSIVE indexFrom(_, _, _)
indexFrom(arr, v, i) ==
    IF i > Len(arr) THEN 0
    ELSE IF arr[i] = v THEN i ELSE indexFrom(arr, v, i + 1)
indexOf(arr, v) == indexFrom(arr, v, 1)

\* arr.splice(i, 1) with i 1-based
spliceOut(arr, i) == SubSeq(arr, 1, i - 1) \o SubSeq(arr, i + 1, Len(arr))
\* arr.splice(i, 0, v) with i 0-based
spliceIn(arr, i, v) == SubSeq(arr, 1, i) \o <<v>> \o SubSeq(arr, i + 1, Len(arr))

OppositeSide(side) == IF side = "bid" THEN "ask" ELSE "bid"
Min(a, b) == IF a < b THEN a ELSE b

\* ------------------------------------------------------------ OrderBook
OrderBookNew(marketId, outcome) ==
    [marketId |-> marketId, outcome |-> outcome,
     bidLevels |-> EmptyMap, askLevels |-> EmptyMap,
     bidPrices |-> <<>>, askPrices |-> <<>>,
     orderMap |-> EmptyMap, userOrders |-> EmptyMap]

LevelsOf(b, side) == IF side = "bid" THEN b.bidLevels ELSE b.askLevels
PricesOf(b, side) == IF side = "bid" THEN b.bidPrices ELSE b.askPrices
SetSide(b, side, levels, prices) ==
    IF side = "bid"
    THEN [b EXCEPT !.bidLevels = levels, !.bidPrices = prices]
    ELSE [b EXCEPT !.askLevels = levels, !.askPrices = prices]

\* the binary search of insertPrice; left and right are 0-based
RECURSIVE insertPriceSearch(_, _, _, _, _)
insertPriceSearch(prices, price, descending, left, right) ==
    IF left < right
    THEN LET mid == (left + right) \div 2
             comparison == IF descending THEN prices[mid + 1] > price
                                         ELSE prices[mid + 1] < price
         IN  IF comparison
             THEN insertPriceSearch(prices, price, descending, mid + 1, right)
             ELSE insertPriceSearch(prices, price, descending, left, mid)
    ELSE left

\* a plausible slip: the descending flag is dropped
insertPriceAlwaysAscending(prices, price, descending) ==
    spliceIn(prices, insertPriceSearch(prices, price, FALSE, 0, Len(prices)), price)
\* a plausible slip: the new price is pushed at the end, unsorted
insertPriceUnsorted(prices, price, descending) == Append(prices, price)

insertPrice(prices, price, descending) ==
    spliceIn(prices, insertPriceSearch(prices, price, descending, 0, Len(prices)), price)

addOrderThrowsOnMismatchOnly(b, order) ==
    IF order.marketId # b.marketId \/ order.outcome # b.outcome
    THEN "Order does not match this order book"
    ELSE "none"
\* the exception addOrder throws, or "none"
addOrderThrows(b, order) ==
    IF order.marketId # b.marketId \/ order.outcome # b.outcome
    THEN "Order does not match this order book"
    ELSE IF order.id \in DOMAIN b.orderMap
         THEN "Order already exists"
         ELSE "none"

addOrder(b, order) ==
    IF addOrderThrows(b, order) # "none" THEN b
    ELSE
    LET levels == LevelsOf(b, order.side)
        prices == PricesOf(b, order.side)
        isNew  == order.price \notin DOMAIN levels
        level0 == IF isNew
                  THEN [price |-> order.price, orders |-> <<>>, totalQuantity |-> 0]
                  ELSE levels[order.price]
        prices1 == IF isNew
                   THEN insertPrice(prices, order.price, order.side = "bid")
                   ELSE prices
        level1 == [level0 EXCEPT !.orders = Append(@, order.id),
                                 !.totalQuantity = @ + order.quantity]
        b1 == SetSide(b, order.side, MapSet(levels, order.price, level1), prices1)
        uset == IF order.userAddress \in DOMAIN b.userOrders
                THEN b.userOrders[order.userAddress] ELSE <<>>
    IN  [b1 EXCEPT !.orderMap = MapSet(@, order.id, order),
                   !.userOrders = MapSet(@, order.userAddress,
                                         IF indexOf(uset, order.id) # 0 THEN uset
                                         ELSE Append(uset, order.id))]

removeOrderRet(b, orderId) ==
    IF orderId \notin DOMAIN b.orderMap THEN [tag |-> "null"]
    ELSE LET order == b.orderMap[orderId]
         IN  IF order.price \notin DOMAIN LevelsOf(b, order.side)
             THEN [tag |-> "null"]
             ELSE [tag |-> "order", order |-> order]

removeOrderKeepsLevel(b, orderId) ==
    IF removeOrderRet(b, orderId).tag = "null" THEN b
    ELSE
    LET order  == b.orderMap[orderId]
        levels == LevelsOf(b, order.side)
        level  == levels[order.price]
        orderIndex == indexOf(level.orders, orderId)
        level1 == IF orderIndex # 0
                  THEN [level EXCEPT !.orders = spliceOut(@, orderIndex),
                                     !.totalQuantity = @ - order.quantity]
                  ELSE level
        b1 == SetSide(b, order.side, MapSet(levels, order.price, level1),
                      PricesOf(b, order.side))
        uset == IF order.userAddress \in DOMAIN b.userOrders
                THEN b.userOrders[order.userAddress] ELSE <<>>
        uidx == indexOf(uset, orderId)
        uset1 == IF uidx # 0 THEN spliceOut(uset, uidx) ELSE uset
    IN  [b1 EXCEPT !.orderMap = MapDelete(@, orderId),
                   !.userOrders =
                       IF order.userAddress \notin DOMAIN @ THEN @
                       ELSE IF Len(uset1) = 0 THEN MapDelete(@, order.userAddress)
                            ELSE MapSet(@, order.userAddress, uset1)]
removeOrder(b, orderId) ==
    IF removeOrderRet(b, orderId).tag = "null" THEN b
    ELSE
    LET order  == b.orderMap[orderId]
        levels == LevelsOf(b, order.side)
        prices == PricesOf(b, order.side)
        level  == levels[order.price]
        orderIndex == indexOf(level.orders, orderId)
        level1 == IF orderIndex # 0
                  THEN [level EXCEPT !.orders = spliceOut(@, orderIndex),
                                     !.totalQuantity = @ - order.quantity]
                  ELSE level
        emptied == Len(level1.orders) = 0
        levels1 == IF emptied THEN MapDelete(levels, order.price)
                              ELSE MapSet(levels, order.price, level1)
        priceIndex == indexOf(prices, order.price)
        prices1 == IF emptied /\ priceIndex # 0 THEN spliceOut(prices, priceIndex)
                                               ELSE prices
        b1 == SetSide(b, order.side, levels1, prices1)
        uset == IF order.userAddress \in DOMAIN b.userOrders
                THEN b.userOrders[order.userAddress] ELSE <<>>
        uidx == indexOf(uset, orderId)
        uset1 == IF uidx # 0 THEN spliceOut(uset, uidx) ELSE uset
    IN  [b1 EXCEPT !.orderMap = MapDelete(@, orderId),
                   !.userOrders =
                       IF order.userAddress \notin DOMAIN @ THEN @
                       ELSE IF Len(uset1) = 0 THEN MapDelete(@, order.userAddress)
                            ELSE MapSet(@, order.userAddress, uset1)]

\* "false", "true" or the exception updateOrderQuantity ends with
updateOrderQuantityRet(b, orderId, newQuantity) ==
    IF orderId \notin DOMAIN b.orderMap THEN "false"
    ELSE IF newQuantity < 0 THEN "Quantity cannot be negative"
    ELSE IF newQuantity = 0 THEN "true"
    ELSE IF b.orderMap[orderId].price \notin DOMAIN LevelsOf(b, b.orderMap[orderId].side)
         THEN "false"
         ELSE "true"

updateOrderQuantityRequeues(b, orderId, newQuantity) ==
    IF updateOrderQuantityRet(b, orderId, newQuantity) # "true" THEN b
    ELSE IF newQuantity = 0 THEN removeOrder(b, orderId)
    ELSE
    LET order  == b.orderMap[orderId]
        levels == LevelsOf(b, order.side)
        level  == levels[order.price]
        level1 == [level EXCEPT
                      !.totalQuantity = @ + (newQuantity - order.quantity),
                      !.orders = Append(SelectSeq(@, LAMBDA x : x # orderId), orderId)]
        b1 == SetSide(b, order.side, MapSet(levels, order.price, level1),
                      PricesOf(b, order.side))
    IN  [b1 EXCEPT !.orderMap[orderId].quantity = newQuantity]
updateOrderQuantityKeepsTotal(b, orderId, newQuantity) ==
    IF updateOrderQuantityRet(b, orderId, newQuantity) # "true" THEN b
    ELSE IF newQuantity = 0 THEN removeOrder(b, orderId)
    ELSE [b EXCEPT !.orderMap[orderId].quantity = newQuantity]
updateOrderQuantity(b, orderId, newQuantity) ==
    IF updateOrderQuantityRet(b, orderId, newQuantity) # "true" THEN b
    ELSE IF newQuantity = 0 THEN removeOrder(b, orderId)
    ELSE
    LET order  == b.orderMap[orderId]
        levels == LevelsOf(b, order.side)
        level  == levels[order.price]
        quantityDelta == newQuantity - order.quantity
        level1 == [level EXCEPT !.totalQuantity = @ + quantityDelta]
        b1 == SetSide(b, order.side, MapSet(levels, order.price, level1),
                      PricesOf(b, order.side))
    IN  [b1 EXCEPT !.orderMap[orderId].quantity = newQuantity]

\* ids of the orders of one level, in the level's own order
getOrdersAtPrice(b, side, price) ==
    IF price \in DOMAIN LevelsOf(b, side) THEN LevelsOf(b, side)[price].orders ELSE <<>>

\* a missing order (null)
NoOrder == [id |-> 0]
getBestBidNewest(b) ==
    IF Len(b.bidPrices) = 0 THEN NoOrder
    ELSE LET bestPrice == b.bidPrices[1]
         IN  IF bestPrice \in DOMAIN b.bidLevels /\ Len(b.bidLevels[bestPrice].orders) > 0
             THEN b.orderMap[b.bidLevels[bestPrice].orders[Len(b.bidLevels[bestPrice].orders)]]
             ELSE NoOrder
\* OrderBook.getBestBid()
getBestBid(b) ==
    IF Len(b.bidPrices) = 0 THEN NoOrder
    ELSE LET bestPrice == b.bidPrices[1]
         IN  IF bestPrice \in DOMAIN b.bidLevels /\ Len(b.bidLevels[bestPrice].orders) > 0
             THEN b.orderMap[b.bidLevels[bestPrice].orders[1]]
             ELSE NoOrder
\* OrderBook.getBestAsk()
getBestAsk(b) ==
    IF Len(b.askPrices) = 0 THEN NoOrder
    ELSE LET bestPrice == b.askPrices[1]
         IN  IF bestPrice \in DOMAIN b.askLevels /\ Len(b.askLevels[bestPrice].orders) > 0
             THEN b.orderMap[b.askLevels[bestPrice].orders[1]]
             ELSE NoOrder

\* one side of getDepth: the loop over the first min(levels, length) prices,
\* i 0-based, pushing a DepthLevel for each price that has a level
RECURSIVE getDepthSide(_, _, _, _)
getDepthSide(b, side, levels, i) ==
    IF i >= Min(levels, Len(PricesOf(b, side))) THEN <<>>
    ELSE LET price == PricesOf(b, side)[i + 1]
             rest == getDepthSide(b, side, levels, i + 1)
         IN  IF price \in DOMAIN LevelsOf(b, side)
             THEN LET level == LevelsOf(b, side)[price]
                  IN  <<[price |-> level.price, quantity |-> level.totalQuantity,
                         orderCount |-> Len(level.orders)]>> \o rest
             ELSE rest
\* OrderBook.getDepth(levels)
getDepth(b, levels) ==
    [bids |-> getDepthSide(b, "bid", levels, 0),
     asks |-> getDepthSide(b, "ask", levels, 0)]

\* OrderBook.getOrdersByUser(userAddress): the orders of the user's id set
\* that the order map still holds, in the set's insertion order
getOrdersByUser(b, userAddress) ==
    IF userAddress \notin DOMAIN b.userOrders THEN <<>>
    ELSE LET orderIds == SelectSeq(b.userOrders[userAddress],
                                   LAMBDA orderId : orderId \in DOMAIN b.orderMap)
         IN  [k \in 1 .. Len(orderIds) |-> b.orderMap[orderIds[k]]]

\* the sum of totalQuantity over the levels at the given prices
RECURSIVE sumLevels(_, _)
sumLevels(levels, prices) ==
    IF prices = {} THEN 0
    ELSE LET price == CHOOSE p \in prices : TRUE
         IN  levels[price].totalQuantity + sumLevels(levels, prices \ {price})
\* OrderBook.getTotalVolume()
getTotalVolume(b) ==
    [bidVolume |-> sumLevels(b.bidLevels, DOMAIN b.bidLevels),
     askVolume |-> sumLevels(b.askLevels, DOMAIN b.askLevels)]

\* OrderBook.getOrderCount()
getOrderCount(b) == Cardinality(DOMAIN b.orderMap)

clearKeepsOrderMap(b) ==
    [OrderBookNew(b.marketId, b.outcome) EXCEPT !.orderMap = b.orderMap]
\* OrderBook.clear(): fresh price arrays, cleared maps
clear(b) == OrderBookNew(b.marketId, b.outcome)

\* -------------------------------------------- the iterateOrders generator
\* A generator object: which side it walks, the array iterator over the
\* side's price array (pi: next index, 0-based), the array iterator over the
\* current level's orders array (oi: next index, 0-based) and whether that
\* array is still the one the book holds for the price (a level deleted from
\* the map leaves the generator with the emptied, orphaned array).
GenNone == [state |-> "none", side |-> "bid", pi |-> 0, price |-> 0, oi |-> 0,
            attached |-> FALSE]
GenStart(side) == [GenNone EXCEPT !.state = "suspendedStart", !.side = side]

RECURSIVE genOuter(_, _)
RECURSIVE genInner(_, _)
\* inner loop: for (const order of level.orders) yield order
genInner(b, g) ==
    LET arr == IF g.attached /\ g.price \in DOMAIN LevelsOf(b, g.side)
               THEN LevelsOf(b, g.side)[g.price].orders ELSE <<>>
    IN  IF g.oi < Len(arr)
        THEN [gen |-> [g EXCEPT !.oi = @ + 1, !.state = "suspendedYield"],
              done |-> FALSE, value |-> arr[g.oi + 1]]
        ELSE genOuter(b, g)
\* outer loop: for (const price of prices) { const level = levels.get(price) ... }
genOuter(b, g) ==
    LET prices == PricesOf(b, g.side)
    IN  IF g.pi >= Len(prices)
        THEN [gen |-> [g EXCEPT !.state = "completed"], done |-> TRUE, value |-> 0]
        ELSE LET price == prices[g.pi + 1]
                 g1 == [g EXCEPT !.pi = @ + 1]
             IN  IF price \in DOMAIN LevelsOf(b, g.side)
                 THEN genInner(b, [g1 EXCEPT !.price = price, !.oi = 0,
                                                !.attached = TRUE])
                 ELSE genOuter(b, g1)

\* generator.next()
genNext(b, g) ==
    IF g.state = "suspendedStart" THEN genOuter(b, g)
    ELSE IF g.state = "suspendedYield" THEN genInner(b, g)
    ELSE [gen |-> g, done |-> TRUE, value |-> 0]

\* what a book mutation does to a suspended generator: the level it is in may
\* have been deleted from the map
genAfter(g, b2) ==
    IF g.state = "suspendedYield" /\ g.attached
       /\ g.price \notin DOMAIN LevelsOf(b2, g.side)
    THEN [g EXCEPT !.attached = FALSE]
    ELSE g

\* [...book.iterateOrders(side)]: the generator run to completion, book untouched
RECURSIVE genDrain(_, _)
genDrain(b, g) ==
    LET r == genNext(b, g)
    IN  IF r.done THEN <<>> ELSE <<r.value>> \o genDrain(b, r.gen)
iterateOrders(b, side) == genDrain(b, GenStart(side))

\* ------------------------------------------------- POST /orders: the data
\* server processes, each running one POST /orders handler at a time
Procs == {"p1", "p2"}
\* wallet addresses that submit orders
Addresses == {"u1", "u2"}
\* order ids generateOrderId() hands out
MaxOrders == 3
\* redis.set(lockKey, lockValue, "PX", 5000, "NX")
LOCK_TTL_MS == 5000
\* prisma.$transaction(..., { timeout: 30000 })
TX_TIMEOUT_MS == 30000

\* Request bodies the route schema lets through: price in [0, 1], quantity > 0.
\* The handler is driven with the two boundary prices 0 and 1 and one price
\* inside (0, 1); several price levels are the subject of SpecBook and SpecWalk.
RequestPrices == {0, 1, PriceScale}
OrderRequests ==
    [userAddress : Addresses, side : {"BUY", "SELL"}, price : RequestPrices,
     quantity : 1 .. MaxQty]

NoReq == [userAddress |-> "u1", side |-> "BUY", price |-> 0, quantity |-> 0]
\* A transaction: the rows it wrote (wOrders, wPos), the rows other
\* transactions committed after its snapshot was taken (staleOrders, stalePos),
\* the handler's locals, and the reply code.
NoTx == [orderId |-> 0, matches |-> <<>>, i |-> 0,
         totalFilledQuantity |-> 0, trades |-> <<>>,
         wOrders |-> EmptyMap, wPos |-> EmptyMap,
         staleOrders |-> {}, stalePos |-> {}, code |-> 0]
NoPosition == [exists |-> FALSE, quantity |-> 0, value |-> 0]

\* pc values at which a handler is inside prisma.$transaction
InTxPcs == {"validate", "match", "process", "commit"}
\* pc values at which the transaction has taken its snapshot
SnapshotPcs == InTxPcs \ {"validate"}
\* pc values between the acquisition of the admission lock and its release
LockedPcs == InTxPcs \cup {"release"}

InitSubmit ==
    /\ cache = OrderBookNew("m1", "YES")
    /\ marketStatus = "ACTIVE"
    /\ orders = EmptyMap
    /\ trades = <<>>
    /\ positions = [u \in Addresses |-> NoPosition]
    /\ nextOrderId = 1
    /\ lock = [u \in Addresses |-> "none"]
    /\ audit = [market |-> <<>>, global |-> <<>>]
    /\ pc = [p \in Procs |-> "idle"]
    /\ req = [p \in Procs |-> NoReq]
    /\ tx = [p \in Procs |-> NoTx]

\* -------------------------------------------- POST /orders: the operators
\* orderValidator.validate: price strictly inside (0, 1), a positive quantity,
\* a market that is still tradable
validate(request, status) ==
    /\ request.price > 0
    /\ request.price < PriceScale
    /\ request.quantity >= 1
    /\ status = "ACTIVE"

BookSide(side) == IF side = "BUY" THEN "bid" ELSE "ask"
OrderSide(bookSide) == IF bookSide = "bid" THEN "BUY" ELSE "SELL"

\* orderBookCache.addOrder / removeOrder / updateOrderQuantity on the book of
\* (m1, YES); the cache holds the remaining quantity of each resting order
cacheAddOrder(c, orderId, request) ==
    addOrder(c, [id |-> orderId, userAddress |-> request.userAddress,
                 side |-> BookSide(request.side), price |-> request.price,
                 quantity |-> request.quantity, marketId |-> "m1",
                 outcome |-> "YES"])
cacheRemoveOrder(c, orderId) == removeOrder(c, orderId)
cacheUpdateOrderQuantity(c, orderId, newQuantity) ==
    updateOrderQuantity(c, orderId, newQuantity)

\* matchingEngine.matchOrder: walk the opposite side in price-time priority,
\* stop at the first maker that does not cross, skip the taker's own orders,
\* trade min(remaining quantities) at the maker's price
RECURSIVE matchWalk(_, _, _, _, _)
matchWalk(c, taker, s, k, remaining) ==
    IF k > Len(s) \/ remaining = 0 THEN <<>>
    ELSE LET M == c.orderMap[s[k]]
             noCross == IF taker.side = "BUY" THEN M.price > taker.price
                                              ELSE M.price < taker.price
             q == Min(remaining, M.quantity)
         IN  IF noCross THEN <<>>
             ELSE IF M.userAddress = taker.userAddress
             THEN matchWalk(c, taker, s, k + 1, remaining)
             ELSE <<[makerOrderId |-> M.id, makerId |-> M.userAddress,
                     makerSide |-> OrderSide(M.side), price |-> M.price,
                     quantity |-> q,
                     makerRemainingQuantity |-> M.quantity - q]>>
                  \o matchWalk(c, taker, s, k + 1, remaining - q)
matchOrder(c, taker) ==
    matchWalk(c, taker, iterateOrders(c, OppositeSide(BookSide(taker.side))), 1,
              taker.quantity)

\* tx.order.create({ data: { ..., filledQuantity: 0, status: OPEN } })
orderCreateData(request) ==
    [userId |-> request.userAddress, side |-> request.side,
     price |-> request.price, quantity |-> request.quantity,
     filledQuantity |-> 0, status |-> "OPEN"]

\* a plausible slip: the taker's address is written as the maker's too
tradeCreateDataTakerAsMaker(orderId, userAddress, match, n) ==
    [id |-> <<orderId, n>>, price |-> match.price, quantity |-> match.quantity,
     makerOrderId |-> match.makerOrderId, takerOrderId |-> orderId,
     makerId |-> userAddress, takerId |-> userAddress]

\* tx.trade.create({ data: { ... } }); the n-th trade of the taker order
tradeCreateData(orderId, userAddress, match, n) ==
    [id |-> <<orderId, n>>, price |-> match.price, quantity |-> match.quantity,
     makerOrderId |-> match.makerOrderId, takerOrderId |-> orderId,
     makerId |-> match.makerId, takerId |-> userAddress]

\* data of the maker's tx.order.update
makerUpdateData(row, match) ==
    [row EXCEPT !.filledQuantity = @ + match.quantity,
                !.status = IF match.makerRemainingQuantity = 0
                           THEN "FILLED" ELSE "PARTIALLY_FILLED"]

\* a plausible slip: the remaining quantity is stored as filledQuantity
takerUpdateDataStoresRemaining(row, quantity, totalFilledQuantity) ==
    LET remainingQuantity == quantity - totalFilledQuantity
    IN  [row EXCEPT !.filledQuantity = remainingQuantity,
                    !.status = IF remainingQuantity = 0 THEN "FILLED"
                               ELSE IF totalFilledQuantity > 0
                                    THEN "PARTIALLY_FILLED" ELSE "OPEN"]

\* data of the taker's tx.order.update
takerUpdateData(row, quantity, totalFilledQuantity) ==
    LET remainingQuantity == quantity - totalFilledQuantity
    IN  [row EXCEPT !.filledQuantity = totalFilledQuantity,
                    !.status = IF remainingQuantity = 0 THEN "FILLED"
                               ELSE IF totalFilledQuantity > 0
                                    THEN "PARTIALLY_FILLED" ELSE "OPEN"]

\* a plausible slip: the isBuy flag is dropped
updatePositionAlwaysBuy(pos, quantity, notional, isBuy) ==
    IF pos.exists
    THEN LET newQuantity == pos.quantity + quantity
         IN  [pos EXCEPT !.quantity = newQuantity,
                         !.value = IF newQuantity # 0 THEN pos.value + notional ELSE 0]
    ELSE [pos EXCEPT !.exists = TRUE, !.quantity = quantity, !.value = notional]
\* updatePosition; a position row holds quantity and value = quantity *
\* averagePrice (in ticks), notional = quantity * price of the fill
updatePosition(pos, quantity, notional, isBuy) ==
    IF pos.exists
    THEN LET newQuantity == IF isBuy THEN pos.quantity + quantity
                                     ELSE pos.quantity - quantity
             newValue == IF isBuy THEN pos.value + notional
                                  ELSE pos.value - notional
         IN  [pos EXCEPT !.quantity = newQuantity,
                         !.value = IF newQuantity # 0 THEN newValue ELSE 0]
    ELSE [pos EXCEPT !.exists = TRUE,
                     !.quantity = IF isBuy THEN quantity ELSE 0 - quantity,
                     !.value = IF isBuy THEN notional ELSE 0 - notional]

\* sum of price * quantity over the trades of a receipt
RECURSIVE tradesNotional(_)
tradesNotional(ts) ==
    IF Len(ts) = 0 THEN 0
    ELSE ts[1].price * ts[1].quantity + tradesNotional(Tail(ts))

\* a plausible slip: a filled maker is left in the order-book cache
makerCacheUpdateLeavesFilled(c, match) ==
    IF match.makerRemainingQuantity = 0
    THEN c
    ELSE cacheUpdateOrderQuantity(c, match.makerOrderId,
                                  match.makerRemainingQuantity)

\* the maker's entry of the order-book cache after a match
makerCacheUpdate(c, match) ==
    IF match.makerRemainingQuantity = 0
    THEN cacheRemoveOrder(c, match.makerOrderId)
    ELSE cacheUpdateOrderQuantity(c, match.makerOrderId,
                                  match.makerRemainingQuantity)

\* a plausible slip: a filled taker is left in the order-book cache
takerCacheUpdateLeavesFilled(c, orderId, remainingQuantity) ==
    IF remainingQuantity > 0
    THEN cacheUpdateOrderQuantity(c, orderId, remainingQuantity)
    ELSE c

\* the taker's entry of the order-book cache after the loop
takerCacheUpdate(c, orderId, remainingQuantity) ==
    IF remainingQuantity > 0
    THEN cacheUpdateOrderQuantity(c, orderId, remainingQuantity)
    ELSE cacheRemoveOrder(c, orderId)

\* ---- the database as a Serializable transaction sees it
\* a row the transaction can update: one it wrote itself, or one committed
\* before its snapshot and not written by a transaction that committed since
canWriteOrder(t, id) ==
    \/ id \in DOMAIN t.wOrders
    \/ id \in DOMAIN orders /\ id \notin t.staleOrders
canWritePosition(t, u) ==
    \/ u \in DOMAIN t.wPos
    \/ u \notin t.stalePos
orderRow(t, id) == IF id \in DOMAIN t.wOrders THEN t.wOrders[id] ELSE orders[id]
positionRow(t, u) == IF u \in DOMAIN t.wPos THEN t.wPos[u] ELSE positions[u]
\* another open transaction holds the row lock
orderLockedByOther(p, id) ==
    \E q \in Procs \ {p} : pc[q] \in InTxPcs /\ id \in DOMAIN tx[q].wOrders
positionLockedByOther(p, u) ==
    \E q \in Procs \ {p} : pc[q] \in InTxPcs /\ u \in DOMAIN tx[q].wPos

\* ------------------------------------------------ AuditService: the data
\* logOrderMatch calls made by the driver
MaxCalls == 3
\* trade timestamps (ms) the driver passes
MaxTs == 2
\* the Redis server's clock runs from 1 to MaxClock
MaxClock == 2
\* largest limit the driver passes to a query
MaxLimit == 3
\* trade prices the driver passes, in ticks
AuditPrices == 1 .. (PriceScale - 1)

\* the market streams audit:market:<marketId> and the global stream
globalStream == "audit:trades:global"
getMarketStream(marketId) == IF marketId = "m1" THEN "audit:market:m1"
                                                ELSE "audit:market:m2"
StreamKeys == {getMarketStream(m) : m \in BookMarkets} \cup {globalStream}

NoTrade == [id |-> 0, marketId |-> "m1", timestamp |-> 0, price |-> 0]
\* stream ids <ms>-<seq>, as pairs
idLess(a, b) == a[1] < b[1] \/ (a[1] = b[1] /\ a[2] < b[2])
topId(stream) == IF Len(stream) = 0 THEN <<0, 0>> ELSE stream[Len(stream)].id
\* XADD key <ms>-<seq> ...: Redis refuses an id that is not greater than the
\* stream's top id ("... equal or smaller than the target stream top item")
xaddAccepts(stream, id) == idLess(topId(stream), id)
\* XADD key * ...: Redis generates <clock>-0, or the top id's successor when
\* the clock is not ahead of the top id
xaddAutoId(stream, clk) ==
    IF clk > topId(stream)[1] THEN <<clk, 0>>
    ELSE <<topId(stream)[1], topId(stream)[2] + 1>>
xaddUpsert(ss, key, id, trade) ==
    IF \E k \in 1 .. Len(ss[key]) : ss[key][k].tradeId = trade.id
    THEN [ss EXCEPT ![key] = [k \in 1 .. Len(@) |->
             IF @[k].tradeId = trade.id THEN [@[k] EXCEPT !.price = trade.price]
             ELSE @[k]]]
    ELSE [ss EXCEPT ![key] = Append(@, [id |-> id, tradeId |-> trade.id,
                                        price |-> trade.price,
                                        timestamp |-> trade.timestamp])]
xadd(ss, key, id, trade) ==
    [ss EXCEPT ![key] = Append(@, [id |-> id, tradeId |-> trade.id,
                                   price |-> trade.price,
                                   timestamp |-> trade.timestamp])]

logOrderMatchRejects(ss, clk, trade, failAt, k) == [streams |-> ss, ok |-> FALSE]
\* the catch branch of logOrderMatch: both streams get an auto-generated id;
\* k numbers the XADD commands of the call, failAt is the one the connection
\* fails at (0: none)
logOrderMatchFallback(ss, clk, trade, failAt, k) ==
    LET marketStream == getMarketStream(trade.marketId)
        ss1 == xadd(ss, marketStream, xaddAutoId(ss[marketStream], clk), trade)
        ss2 == xadd(ss1, globalStream, xaddAutoId(ss1[globalStream], clk), trade)
    IN  IF failAt = k THEN [streams |-> ss, ok |-> FALSE]
        ELSE IF failAt = k + 1 THEN [streams |-> ss1, ok |-> FALSE]
        ELSE [streams |-> ss2, ok |-> TRUE]

\* AuditService.logOrderMatch(trade): XADD <timestamp>-0 to the market stream,
\* then to the global stream; an error whose message mentions the id sends the
\* call to the fallback, any other error is rethrown
logOrderMatch(ss, clk, trade, failAt) ==
    LET marketStream == getMarketStream(trade.marketId)
        streamId == <<trade.timestamp, 0>>
        ss1 == xadd(ss, marketStream, streamId, trade)
        ss2 == xadd(ss1, globalStream, streamId, trade)
    IN  IF failAt = 1 THEN [streams |-> ss, ok |-> FALSE]
        ELSE IF ~xaddAccepts(ss[marketStream], streamId)
        THEN logOrderMatchFallback(ss, clk, trade, failAt, 2)
        ELSE IF failAt = 2 THEN [streams |-> ss1, ok |-> FALSE]
        ELSE IF ~xaddAccepts(ss1[globalStream], streamId)
        THEN logOrderMatchFallback(ss1, clk, trade, failAt, 3)
        ELSE [streams |-> ss2, ok |-> TRUE]

\* getAuditLog(marketId, limit = 100), getRecentTrades(limit = 100)
DEFAULT_LIMIT == 100
\* Number.MAX_SAFE_INTEGER is 2^53 - 1; the model holds it at the largest
\* integer TLC has, which no sequence number of a modelled stream reaches
MAX_SAFE_INTEGER == 2147483647
\* the largest number of entries a query hands out, by the specification
MAX_LIMIT == 1000

\* XRANGE key start end: the entries whose id lies in [start, end], oldest
\* first; a key that does not exist is an empty stream
xrange(stream, startId, endId) ==
    SelectSeq(stream, LAMBDA e : ~idLess(e.id, startId) /\ ~idLess(endId, e.id))
\* XRANGE key - + COUNT count: the oldest count entries, none for count <= 0
xrangeCount(stream, count) ==
    IF count <= 0 THEN <<>> ELSE SubSeq(stream, 1, Min(count, Len(stream)))
\* XREVRANGE key + - COUNT count: the newest count entries, newest first
xrevrangeCount(stream, count) ==
    IF count <= 0 THEN <<>>
    ELSE [k \in 1 .. Min(count, Len(stream)) |-> stream[Len(stream) + 1 - k]]
\* the limit argument of a call: <<>> when the caller leaves it out
limitOf(args) == IF Len(args) = 0 THEN DEFAULT_LIMIT ELSE args[1]
\* a missing id (null)
NoId == <<>>
NoStats == [totalEntries |-> 0, oldestEntry |-> NoId, newestEntry |-> NoId]

\* the queries: up says whether Redis answers the command; what a call hands
\* to its caller is [threw, entries, stats], and no query has a throwing path
Returned(entries) == [threw |-> FALSE, entries |-> entries, stats |-> NoStats]
ReturnedStats(stats) == [threw |-> FALSE, entries |-> <<>>, stats |-> stats]

\* AuditService.getAuditLog(marketId, limit)
getAuditLog(ss, marketId, args, up) ==
    IF up THEN Returned(xrangeCount(ss[getMarketStream(marketId)], limitOf(args)))
    ELSE Returned(<<>>)

\* AuditService.getRecentTrades(limit)
getRecentTrades(ss, args, up) ==
    IF up THEN Returned(xrevrangeCount(ss[globalStream], limitOf(args)))
    ELSE Returned(<<>>)

getAuditLogRangeHalfOpen(ss, marketId, startTime, endTime, up) ==
    IF up THEN Returned(xrange(ss[getMarketStream(marketId)],
                               <<startTime, 0>>, <<endTime, 0>>))
    ELSE Returned(<<>>)
\* AuditService.getAuditLogRange(marketId, startTime, endTime)
getAuditLogRange(ss, marketId, startTime, endTime, up) ==
    LET startId == <<startTime, 0>>
        endId == <<endTime, MAX_SAFE_INTEGER>>
    IN  IF up THEN Returned(xrange(ss[getMarketStream(marketId)], startId, endId))
        ELSE Returned(<<>>)

\* AuditService.getAuditLogStats(marketId): XINFO STREAM fails for a key that
\* does not exist, and the catch answers with the statistics of an empty stream
getAuditLogStats(ss, marketId, up) ==
    LET stream == ss[getMarketStream(marketId)]
        length == Len(stream)
    IN  IF up /\ length > 0
        THEN ReturnedStats([totalEntries |-> length,
                            oldestEntry |-> stream[1].id,
                            newestEntry |-> stream[length].id])
        ELSE ReturnedStats(NoStats)

NoQuery == [op |-> "none", marketId |-> "m1", args |-> <<>>, up |-> TRUE,
            out |-> Returned(<<>>)]

InitAudit ==
    /\ streams = [k \in StreamKeys |-> <<>>]
    /\ clock = 1
    /\ calls = 0
    /\ lastCall = [trade |-> NoTrade, ok |-> FALSE]
    /\ query = NoQuery

\* the streams after LongLog trades of market m1 were logged, one a millisecond
LongLog == MAX_LIMIT + 1
LongStream == [k \in 1 .. LongLog |->
                  [id |-> <<k, 0>>, tradeId |-> MaxCalls + k, price |-> 1,
                   timestamp |-> k]]
InitAuditLong ==
    /\ streams = [k \in StreamKeys |->
                     IF k = getMarketStream("m2") THEN <<>> ELSE LongStream]
    /\ clock = 1
    /\ calls = 0
    /\ lastCall = [trade |-> NoTrade, ok |-> FALSE]
    /\ query = NoQuery

\* ------------------------------------- DatabaseService.transaction: the data
\* executions of a closure the driver describes
MaxClosureRuns == 4
\* what one execution of the closure inside prisma.$transaction ends with: it
\* returns, it fails with a serialization conflict, it fails otherwise
ClosureOutcomes == {"ok", "conflict", "error"}
\* a closure, as the outcome of its k-th execution
Closures == [1 .. MaxClosureRuns -> ClosureOutcomes]
NoTxn == [state |-> "idle", closure |-> [k \in 1 .. MaxClosureRuns |-> "ok"],
          attempts |-> 0, result |-> "none"]

\* DatabaseService.transaction(operations): one prisma.$transaction call; its
\* result is returned, its error is logged and rethrown
transaction(closure) ==
    [attempts |-> 1,
     result |-> IF closure[1] = "ok" THEN "returned" ELSE "thrown"]

InitTxn == txn = NoTxn

\* ---------------------------------------- the order-creation route: the data
\* the wall clock runs from 0 to MaxNow; the market ends at MaxNow
MaxNow == 2
\* Order rows the route may create
MaxCreated == 2

\* Request bodies: price in ticks (0 and PriceScale are the prices 0 and 1,
\* -1 and PriceScale + 1 lie outside [0, 1]); quantity as whole + half/2, so
\* that half = 1 is a quantity that is not an integer.  side and outcome are
\* enums the schema checks and the handler only copies.
CreateQuantities == [whole : -1 .. MaxQty, half : {0, 1}]
CreateBodies ==
    [marketId : {"m1", "unknown"}, addressValid : BOOLEAN,
     price : -1 .. (PriceScale + 1), quantity : CreateQuantities]
NoBody == [marketId |-> "m1", addressValid |-> TRUE, price |-> 0,
           quantity |-> [whole |-> 0, half |-> 0]]
NoHandler == [pc |-> "idle", body |-> NoBody, code |-> 0]

\* the body schema of POST /orders: price { exclusiveMinimum: 0,
\* exclusiveMaximum: 1 }, quantity { type: "integer", minimum: 1 }
schemaAccepts(body) ==
    /\ body.price > 0
    /\ body.price < PriceScale
    /\ body.quantity.half = 0
    /\ body.quantity.whole >= 1

\* assertValidOrder(orderInput): address format, market found, ACTIVE and not
\* ended, price in (0, 1), quantity a positive integer
assertValidOrder(body, m, t) ==
    /\ body.addressValid
    /\ body.marketId = "m1"
    /\ m.status = "ACTIVE"
    /\ t < m.endTime
    /\ body.price > 0
    /\ body.price < PriceScale
    /\ body.quantity.half = 0
    /\ body.quantity.whole >= 1

\* a plausible slip: the row is written as already filled
createOrderDataFilled(body) ==
    [marketId |-> body.marketId, price |-> body.price,
     quantity |-> body.quantity, filledQuantity |-> body.quantity.whole,
     status |-> "FILLED"]

\* prisma.order.create({ data: { ..., filledQuantity: 0, status: "OPEN" } })
createOrderData(body) ==
    [marketId |-> body.marketId, price |-> body.price,
     quantity |-> body.quantity, filledQuantity |-> 0, status |-> "OPEN"]

InitCreate ==
    /\ market = [status |-> "ACTIVE", endTime |-> MaxNow]
    /\ now = 0
    /\ created = <<>>
    /\ h7 = NoHandler

\* ------------------------------------------------ prisma/seed.ts: the data
\* seed() runs the driver makes
MaxSeedRuns == 3
\* seedData: the markets of the script with the numbers of their orders and
\* positions
seedData == << [orders |-> 5, positions |-> 3], [orders |-> 5, positions |-> 3],
              [orders |-> 5, positions |-> 4], [orders |-> 5, positions |-> 2],
              [orders |-> 2, positions |-> 0] >>
\* process.env.NODE_ENV and options?.clearFirst
SeedEnvs == {"unset", "development", "test", "production"}
ClearOptions == {"unset", "true", "false"}
NoRows == [markets |-> 0, orders |-> 0, positions |-> 0]

\* options?.clearFirst ?? (isDevelopment || isTest)
shouldClear(env, clearFirst) ==
    IF clearFirst # "unset" THEN clearFirst = "true"
    ELSE env \in {"development", "unset", "test"}

\* the for loop of seed over the first n markets of seedData: each market row
\* gets a fresh id, so no order or position of it meets an older row
RECURSIVE createMarkets(_, _)
createMarkets(d, n) ==
    IF n = 0 THEN d
    ELSE LET e == createMarkets(d, n - 1)
         IN  [markets |-> e.markets + 1,
              orders |-> e.orders + seedData[n].orders,
              positions |-> e.positions + seedData[n].positions]

\* seed(options): failAt is the market of seedData whose market.create the
\* database refuses (0: none); the writes are not in a transaction, so the
\* rows written before the failure stay
seed(d, env, clearFirst, failAt) ==
    LET cleared == IF shouldClear(env, clearFirst) THEN NoRows ELSE d
    IN  IF failAt = 0
        THEN [db |-> createMarkets(cleared, Len(seedData)), ok |-> TRUE]
        ELSE [db |-> createMarkets(cleared, failAt - 1), ok |-> FALSE]

InitSeed ==
    /\ db = NoRows
    /\ seeded = [runs |-> 0, ok |-> FALSE, env |-> "unset", clearFirst |-> "unset"]

\* ------------------------------------------ AuditLogService: the data
MAX_RETRIES == 3
\* trades the driver has logTrade append
MaxLogged == 3
RetryOps == {"logTrade", "getAuditLog"}
\* what an attempt's Redis command can fail with: a connection error (thrown
\* on as RedisConnectionError) or another error
RetryErrors == {"connection", "other"}
NoRetry == [pc |-> "idle", op |-> "none", attempt |-> 0, invocations |-> 0,
            lastError |-> "none", out |-> "none", delay |-> 0]
RECURSIVE pow2(_)
pow2(n) == IF n = 0 THEN 1 ELSE 2 * pow2(n - 1)
\* Math.min(1000 * Math.pow(2, attempt), 10000)
backoffDelay(attempt) == Min(1000 * pow2(attempt), 10000)

InitRetry ==
    /\ retry = NoRetry
    /\ logged = 0

InitServices == InitAudit /\ InitTxn /\ InitCreate /\ InitSeed /\ InitRetry

\* ------------------------------------------ the OrderBook under a driver
WalkNone == [active |-> FALSE, stopped |-> FALSE, user |-> "u1", side |-> "bid",
             price |-> 0, remaining |-> 0, trades |-> <<>>]

BookOrderInputs ==
    [id : BookIds, userAddress : Users, side : BookSides, price : BookPrices,
     quantity : 1 .. MaxQty, marketId : BookMarkets, outcome : BookOutcomes]

InitBook ==
    /\ book = OrderBookNew("m1", "YES")
    /\ lastBookId = 0
    /\ gen = GenNone
    /\ yielded = <<>>
    /\ snap = <<>>
    /\ walk = WalkNone

Init == InitBook /\ InitSubmit /\ InitServices

Idle == gen.state = "none" /\ ~walk.active

\* book.addOrder(order); order ids are unique: the driver passes a fresh id, or
\* the id of a resident order (which addOrder refuses)
CallAddOrder(order) ==
    /\ Idle
    /\ \/ order.id = lastBookId + 1
       \/ order.id \in DOMAIN book.orderMap
    /\ book' = addOrder(book, order)
    /\ lastBookId' = IF order.id \in DOMAIN book'.orderMap /\ order.id > lastBookId
                     THEN order.id ELSE lastBookId
    /\ UNCHANGED <<gen, yielded, snap, walk>>
    /\ UNCHANGED <<submitVars, serviceVars>>

CallRemoveOrder(orderId) ==
    /\ Idle
    /\ book' = removeOrder(book, orderId)
    /\ UNCHANGED <<lastBookId, gen, yielded, snap, walk>>
    /\ UNCHANGED <<submitVars, serviceVars>>

CallUpdateOrderQuantity(orderId, newQuantity) ==
    /\ Idle
    /\ book' = updateOrderQuantity(book, orderId, newQuantity)
    /\ UNCHANGED <<lastBookId, gen, yielded, snap, walk>>
    /\ UNCHANGED <<submitVars, serviceVars>>

CallClear ==
    /\ Idle
    /\ book' = clear(book)
    /\ UNCHANGED <<lastBookId, gen, yielded, snap, walk>>
    /\ UNCHANGED <<submitVars, serviceVars>>

\* const it = book.iterateOrders(side)
IterStart(side) ==
    /\ Idle
    /\ gen' = GenStart(side)
    /\ yielded' = <<>>
    /\ snap' = iterateOrders(book, side)
    /\ UNCHANGED <<book, lastBookId, walk>>
    /\ UNCHANGED <<submitVars, serviceVars>>

\* it.next()
IterNext ==
    /\ ~walk.active
    /\ gen.state \in {"suspendedStart", "suspendedYield"}
    /\ LET r == genNext(book, gen)
       IN  /\ gen' = r.gen
           /\ yielded' = IF r.done THEN yielded ELSE Append(yielded, r.value)
    /\ UNCHANGED <<book, lastBookId, snap, walk>>
    /\ UNCHANGED <<submitVars, serviceVars>>

\* the consumer removes the order it was just given, before the next it.next()
IterRemoveYielded ==
    /\ ~walk.active
    /\ gen.state = "suspendedYield"
    /\ Len(yielded) > 0
    /\ yielded[Len(yielded)] \in DOMAIN book.orderMap
    /\ book' = removeOrder(book, yielded[Len(yielded)])
    /\ gen' = genAfter(gen, book')
    /\ UNCHANGED <<lastBookId, yielded, snap, walk>>
    /\ UNCHANGED <<submitVars, serviceVars>>

\* the consumer drops the finished generator
IterClose ==
    /\ ~walk.active
    /\ gen.state = "completed"
    /\ gen' = GenNone
    /\ yielded' = <<>>
    /\ snap' = <<>>
    /\ UNCHANGED <<book, lastBookId, walk>>
    /\ UNCHANGED <<submitVars, serviceVars>>

\* A taker (user, side, price, quantity) starts to be matched by walking
\* iterateOrders(opposite side).
WalkStart(user, side, price, quantity) ==
    /\ Idle
    /\ gen' = GenStart(OppositeSide(side))
    /\ yielded' = <<>>
    /\ snap' = iterateOrders(book, OppositeSide(side))
    /\ walk' = [active |-> TRUE, stopped |-> FALSE, user |-> user, side |-> side,
                price |-> price, remaining |-> quantity, trades |-> <<>>]
    /\ UNCHANGED <<book, lastBookId>>
    /\ UNCHANGED <<submitVars, serviceVars>>

WalkRunning ==
    /\ walk.active /\ ~walk.stopped /\ walk.remaining > 0
    /\ gen.state \in {"suspendedStart", "suspendedYield"}

\* One maker: ask the generator for it, stop when it does not cross, skip the
\* taker's own order, else trade min(remaining) at the maker's price and remove
\* the maker when it is filled (update its quantity otherwise).
WalkStep ==
    /\ WalkRunning
    /\ LET r == genNext(book, gen)
       IN  IF r.done
           THEN /\ gen' = r.gen
                /\ UNCHANGED <<book, yielded, walk>>
           ELSE LET M == book.orderMap[r.value]
                    noCross == IF walk.side = "bid" THEN M.price > walk.price
                                                    ELSE M.price < walk.price
                    q == Min(walk.remaining, M.quantity)
                    b2 == IF M.quantity - q = 0 THEN removeOrder(book, M.id)
                          ELSE updateOrderQuantity(book, M.id, M.quantity - q)
                IN  /\ yielded' = Append(yielded, r.value)
                    /\ IF noCross
                       THEN /\ walk' = [walk EXCEPT !.stopped = TRUE]
                            /\ gen' = r.gen
                            /\ UNCHANGED book
                       ELSE IF M.userAddress = walk.user
                       THEN /\ gen' = r.gen
                            /\ UNCHANGED <<book, walk>>
                       ELSE /\ book' = b2
                            /\ gen' = genAfter(r.gen, b2)
                            /\ walk' = [walk EXCEPT
                                   !.remaining = @ - q,
                                   !.trades = Append(@, [makerOrderId |-> M.id,
                                                         quantity |-> q,
                                                         price |-> M.price])]
    /\ UNCHANGED <<lastBookId, snap>>
    /\ UNCHANGED <<submitVars, serviceVars>>

WalkEnd ==
    /\ walk.active
    /\ ~WalkRunning
    /\ walk' = WalkNone
    /\ gen' = GenNone
    /\ yielded' = <<>>
    /\ snap' = <<>>
    /\ UNCHANGED <<book, lastBookId>>
    /\ UNCHANGED <<submitVars, serviceVars>>

NextBook ==
    \/ \E order \in BookOrderInputs : CallAddOrder(order)
    \/ \E orderId \in BookIds : CallRemoveOrder(orderId)
    \/ \E orderId \in BookIds, q \in -1 .. MaxQty : CallUpdateOrderQuantity(orderId, q)
    \/ CallClear
    \/ \E side \in BookSides : IterStart(side)
    \/ IterNext
    \/ IterRemoveYielded
    \/ IterClose

SpecBook == Init /\ [][NextBook]_vars

NextWalk ==
    \/ \E order \in BookOrderInputs : CallAddOrder(order)
    \/ \E u \in Users, side \in BookSides, p \in BookPrices, q \in 1 .. MaxQty :
           WalkStart(u, side, p, q)
    \/ WalkStep
    \/ WalkEnd

SpecWalk == Init /\ [][NextWalk]_vars

\* ---------------------------------------------- POST /orders: the handler
\* The handler leaves the try block with a reply code: what is left of the
\* request is the key of its lock and the code of the reply.
Leave(p, code) ==
    /\ tx' = [tx EXCEPT ![p] = [NoTx EXCEPT !.code = code]]
    /\ req' = [req EXCEPT ![p] =
                 [NoReq EXCEPT !.userAddress = req[p].userAddress]]
    /\ pc' = [pc EXCEPT ![p] = "release"]

\* the key order:lock:<u>:m1 has expired (PX 5000) under a holder whose
\* transaction (timeout 30000) is still running
lockExpired(u) ==
    /\ LOCK_TTL_MS < TX_TIMEOUT_MS
    /\ lock[u] # "none"
    /\ pc[lock[u]] \in InTxPcs

\* A request arrives: redis.set(lockKey, lockValue, "PX", 5000, "NX"); the
\* lock value of a request is modelled by the process that serves it.
Submit(p, request) ==
    /\ pc[p] = "idle"
    /\ nextOrderId + Cardinality({q \in Procs : pc[q] = "validate"}) <= MaxOrders
    /\ lock[request.userAddress] = "none"
    /\ lock' = [lock EXCEPT ![request.userAddress] = p]
    /\ req' = [req EXCEPT ![p] = request]
    /\ pc' = [pc EXCEPT ![p] = "validate"]
    /\ UNCHANGED <<cache, marketStatus, orders, trades, positions, nextOrderId,
                   audit, tx>>
    /\ UNCHANGED <<bookVars, serviceVars>>

\* A request arrives while the key of an earlier request of the user is held:
\* SET NX fails, unless the key has expired in the meantime.
SubmitHeld(p, request, expired) ==
    /\ pc[p] = "idle"
    /\ nextOrderId + Cardinality({q \in Procs : pc[q] = "validate"}) <= MaxOrders
    /\ lock[request.userAddress] # "none"
    /\ IF expired
       THEN /\ lockExpired(request.userAddress)
            /\ lock' = [lock EXCEPT ![request.userAddress] = p]
            /\ req' = [req EXCEPT ![p] = request]
            /\ pc' = [pc EXCEPT ![p] = "validate"]
       ELSE /\ req' = [req EXCEPT ![p] =
                         [NoReq EXCEPT !.userAddress = request.userAddress]]
            /\ pc' = [pc EXCEPT ![p] = "rejected"]
            /\ UNCHANGED lock
    /\ UNCHANGED <<cache, marketStatus, orders, trades, positions, nextOrderId,
                   audit, tx>>
    /\ UNCHANGED <<bookVars, serviceVars>>

\* reply.code(429)
Reply429(p) ==
    /\ pc[p] = "rejected"
    /\ pc' = [pc EXCEPT ![p] = "idle"]
    /\ req' = [req EXCEPT ![p] = NoReq]
    /\ UNCHANGED <<cache, marketStatus, orders, trades, positions, nextOrderId,
                   lock, audit, tx>>
    /\ UNCHANGED <<bookVars, serviceVars>>

\* The transaction begins: orderValidator.validate, tx.order.create and
\* orderBookCache.addOrder.  The first two touch only the transaction's own
\* snapshot and rows, so the three statements are one step.
ValidateAndCreate(p) ==
    /\ pc[p] = "validate"
    /\ IF validate(req[p], marketStatus)
       THEN /\ tx' = [tx EXCEPT ![p] =
                        [NoTx EXCEPT !.orderId = nextOrderId,
                                     !.wOrders = MapSet(EmptyMap, nextOrderId,
                                                        orderCreateData(req[p]))]]
            /\ nextOrderId' = nextOrderId + 1
            /\ cache' = cacheAddOrder(cache, nextOrderId, req[p])
            /\ pc' = [pc EXCEPT ![p] = "match"]
            /\ UNCHANGED req
       ELSE /\ Leave(p, 400)
            /\ UNCHANGED <<nextOrderId, cache>>
    /\ UNCHANGED <<marketStatus, orders, trades, positions, lock, audit>>
    /\ UNCHANGED <<bookVars, serviceVars>>

\* matchingEngine.matchOrder(order, tx, orderBookCache)
MatchOrder(p) ==
    /\ pc[p] = "match"
    /\ tx' = [tx EXCEPT ![p].matches = matchOrder(cache, req[p]), ![p].i = 1]
    /\ pc' = [pc EXCEPT ![p] = "process"]
    /\ UNCHANGED <<cache, marketStatus, orders, trades, positions, nextOrderId,
                   lock, audit, req>>
    /\ UNCHANGED <<bookVars, serviceVars>>

\* One turn of "for (const match of matchResult.matches)": trade.create, the
\* maker's order.update and position, then the maker's cache entry.  A maker
\* row the transaction cannot update (not committed in its snapshot, or changed
\* since) makes the statement throw before the cache is touched.
ProcessMatch(p) ==
    /\ pc[p] = "process"
    /\ tx[p].i <= Len(tx[p].matches)
    /\ LET t == tx[p]
           match == t.matches[t.i]
       IN  /\ ~orderLockedByOther(p, match.makerOrderId)
           /\ ~positionLockedByOther(p, match.makerId)
           /\ IF canWriteOrder(t, match.makerOrderId)
                 /\ canWritePosition(t, match.makerId)
              THEN /\ tx' = [tx EXCEPT ![p] =
                        [t EXCEPT
                           !.trades = Append(@, tradeCreateData(t.orderId,
                                          req[p].userAddress, match, t.i)),
                           !.totalFilledQuantity = @ + match.quantity,
                           !.wOrders = MapSet(@, match.makerOrderId,
                                          makerUpdateData(
                                              orderRow(t, match.makerOrderId),
                                              match)),
                           !.wPos = MapSet(@, match.makerId,
                                          updatePosition(
                                              positionRow(t, match.makerId),
                                              match.quantity,
                                              match.quantity * match.price,
                                              match.makerSide = "BUY")),
                           !.i = @ + 1]]
                   /\ cache' = makerCacheUpdate(cache, match)
                   /\ UNCHANGED <<pc, req>>
              ELSE /\ Leave(p, 500)
                   /\ UNCHANGED cache
    /\ UNCHANGED <<marketStatus, orders, trades, positions, nextOrderId,
                   lock, audit>>
    /\ UNCHANGED <<bookVars, serviceVars>>

\* After the loop: the taker's order.update, its position if it traded, then
\* its cache entry (the residual rests, a filled taker is removed).  A position
\* row the transaction cannot update makes the statement throw before the cache
\* is touched.
UpdateTaker(p) ==
    /\ pc[p] = "process"
    /\ tx[p].i > Len(tx[p].matches)
    /\ LET t == tx[p]
           u == req[p].userAddress
           remainingQuantity == req[p].quantity - t.totalFilledQuantity
           row == takerUpdateData(orderRow(t, t.orderId), req[p].quantity,
                                  t.totalFilledQuantity)
           cache1 == takerCacheUpdate(cache, t.orderId, remainingQuantity)
       IN  IF t.totalFilledQuantity > 0
           THEN /\ ~positionLockedByOther(p, u)
                /\ IF canWritePosition(t, u)
                   THEN /\ tx' = [tx EXCEPT ![p] =
                              [t EXCEPT
                                 !.wOrders = MapSet(@, t.orderId, row),
                                 !.wPos = MapSet(@, u,
                                     updatePosition(positionRow(t, u),
                                         t.totalFilledQuantity,
                                         tradesNotional(t.trades),
                                         req[p].side = "BUY"))]]
                        /\ cache' = cache1
                        /\ pc' = [pc EXCEPT ![p] = "commit"]
                        /\ UNCHANGED req
                   ELSE /\ Leave(p, 500)
                        /\ UNCHANGED cache
           ELSE /\ tx' = [tx EXCEPT ![p].wOrders = MapSet(@, t.orderId, row)]
                /\ cache' = cache1
                /\ pc' = [pc EXCEPT ![p] = "commit"]
                /\ UNCHANGED req
    /\ UNCHANGED <<marketStatus, orders, trades, positions, nextOrderId,
                   lock, audit>>
    /\ UNCHANGED <<bookVars, serviceVars>>

\* a plausible slip: the position rows are written outside the transaction
\* and lost
CommitWithoutPositions(p, code) ==
    /\ pc[p] = "commit"
    /\ orders' = [id \in DOMAIN orders \cup DOMAIN tx[p].wOrders |->
                    IF id \in DOMAIN tx[p].wOrders THEN tx[p].wOrders[id]
                                                  ELSE orders[id]]
    /\ trades' = trades \o tx[p].trades
    /\ tx' = [tx EXCEPT ![p] = [NoTx EXCEPT !.code = code]]
    /\ req' = [req EXCEPT ![p] =
                 [NoReq EXCEPT !.userAddress = req[p].userAddress]]
    /\ pc' = [pc EXCEPT ![p] = "release"]
    /\ UNCHANGED <<cache, marketStatus, positions, nextOrderId, lock, audit>>
    /\ UNCHANGED <<bookVars, serviceVars>>

\* The closure returns and the transaction commits; the receipt is built and
\* signingService.signReceipt(receipt) returns (201) or throws (500).
Commit(p, code) ==
    /\ pc[p] = "commit"
    /\ orders' = [id \in DOMAIN orders \cup DOMAIN tx[p].wOrders |->
                    IF id \in DOMAIN tx[p].wOrders THEN tx[p].wOrders[id]
                                                  ELSE orders[id]]
    /\ positions' = [u \in Addresses |->
                       IF u \in DOMAIN tx[p].wPos THEN tx[p].wPos[u]
                                                 ELSE positions[u]]
    /\ trades' = trades \o tx[p].trades
    /\ tx' = [q \in Procs |->
                IF q = p
                THEN [NoTx EXCEPT !.code = code]
                ELSE IF pc[q] \in SnapshotPcs
                THEN [tx[q] EXCEPT
                        !.staleOrders = @ \cup DOMAIN tx[p].wOrders,
                        !.stalePos = @ \cup DOMAIN tx[p].wPos]
                ELSE tx[q]]
    /\ req' = [req EXCEPT ![p] =
                 [NoReq EXCEPT !.userAddress = req[p].userAddress]]
    /\ pc' = [pc EXCEPT ![p] = "release"]
    /\ UNCHANGED <<cache, marketStatus, nextOrderId, lock, audit>>
    /\ UNCHANGED <<bookVars, serviceVars>>

\* a plausible slip: the order row is inserted outside the transaction and
\* survives the rollback
AbortAfterOrderInsert(p) ==
    /\ pc[p] \in InTxPcs
    /\ orders' = IF tx[p].orderId \in DOMAIN tx[p].wOrders
                 THEN MapSet(orders, tx[p].orderId, tx[p].wOrders[tx[p].orderId])
                 ELSE orders
    /\ Leave(p, 500)
    /\ UNCHANGED <<cache, marketStatus, trades, positions, nextOrderId,
                   lock, audit>>
    /\ UNCHANGED <<bookVars, serviceVars>>

\* The transaction fails at some statement (timeout, serialization failure,
\* lost connection, an exception of a collaborator): the database rolls back,
\* the handler goes to its finally block.
Abort(p) ==
    /\ pc[p] \in InTxPcs
    /\ Leave(p, 500)
    /\ UNCHANGED <<cache, marketStatus, orders, trades, positions, nextOrderId,
                   lock, audit>>
    /\ UNCHANGED <<bookVars, serviceVars>>

\* a plausible slip: the finally block does not delete the key
ReleaseLockKeepsKey(p) ==
    /\ pc[p] = "release"
    /\ pc' = [pc EXCEPT ![p] = "idle"]
    /\ req' = [req EXCEPT ![p] = NoReq]
    /\ tx' = [tx EXCEPT ![p] = NoTx]
    /\ UNCHANGED <<cache, marketStatus, orders, trades, positions, nextOrderId,
                   lock, audit>>
    /\ UNCHANGED <<bookVars, serviceVars>>

\* a plausible slip: the finally block deletes the key without comparing
\* its value
ReleaseLockUnconditional(p) ==
    /\ pc[p] = "release"
    /\ lock' = [lock EXCEPT ![req[p].userAddress] = "none"]
    /\ pc' = [pc EXCEPT ![p] = "idle"]
    /\ req' = [req EXCEPT ![p] = NoReq]
    /\ tx' = [tx EXCEPT ![p] = NoTx]
    /\ UNCHANGED <<cache, marketStatus, orders, trades, positions, nextOrderId,
                   audit>>
    /\ UNCHANGED <<bookVars, serviceVars>>

\* finally: the lock is deleted if it still carries this request's value; then
\* the reply is sent
ReleaseLock(p) ==
    /\ pc[p] = "release"
    /\ lock' = IF lock[req[p].userAddress] = p
               THEN [lock EXCEPT ![req[p].userAddress] = "none"]
               ELSE lock
    /\ pc' = [pc EXCEPT ![p] = "idle"]
    /\ req' = [req EXCEPT ![p] = NoReq]
    /\ tx' = [tx EXCEPT ![p] = NoTx]
    /\ UNCHANGED <<cache, marketStatus, orders, trades, positions, nextOrderId,
                   audit>>
    /\ UNCHANGED <<bookVars, serviceVars>>

Next ==
    \/ \E p \in Procs, request \in OrderRequests : Submit(p, request)
    \/ \E p \in Procs, request \in OrderRequests, expired \in BOOLEAN :
           SubmitHeld(p, request, expired)
    \/ \E p \in Procs : Reply429(p)
    \/ \E p \in Procs : ValidateAndCreate(p)
    \/ \E p \in Procs : MatchOrder(p)
    \/ \E p \in Procs : ProcessMatch(p)
    \/ \E p \in Procs : UpdateTaker(p)
    \/ \E p \in Procs, code \in {201, 500} : Commit(p, code)
    \/ \E p \in Procs : Abort(p)
    \/ \E p \in Procs : ReleaseLock(p)

Spec == Init /\ [][Next]_vars

\* ------------------------------------------- AuditService under a driver
\* auditService.logOrderMatch(trade) for a trade not logged before; failAt is
\* the XADD command of the call at which the Redis connection fails (0: none)
CallLogOrderMatch(marketId, timestamp, price, failAt) ==
    /\ calls < MaxCalls
    /\ LET trade == [id |-> calls + 1, marketId |-> marketId,
                     timestamp |-> timestamp, price |-> price]
           r == logOrderMatch(streams, clock, trade, failAt)
       IN  /\ streams' = r.streams
           /\ lastCall' = [trade |-> trade, ok |-> r.ok]
    /\ calls' = calls + 1
    /\ query' = NoQuery
    /\ UNCHANGED <<clock, txnVars, createVars, bookVars,
                   submitVars, toolVars>>

\* auditService.logOrderMatch({...trade, price}): the trade of the last call
\* is logged again with another price
CallLogOrderMatchAgain(price, failAt) ==
    /\ calls < MaxCalls
    /\ lastCall.trade # NoTrade
    /\ price # lastCall.trade.price
    /\ LET trade == [lastCall.trade EXCEPT !.price = price]
           r == logOrderMatch(streams, clock, trade, failAt)
       IN  /\ streams' = r.streams
           /\ lastCall' = [trade |-> trade, ok |-> r.ok]
    /\ calls' = calls + 1
    /\ query' = NoQuery
    /\ UNCHANGED <<clock, txnVars, createVars, bookVars,
                   submitVars, toolVars>>

\* auditService.getAuditLog(marketId, limit), limit left out when args is <<>>
CallGetAuditLog(marketId, args, up) ==
    /\ query' = [op |-> "getAuditLog", marketId |-> marketId, args |-> args,
                 up |-> up, out |-> getAuditLog(streams, marketId, args, up)]
    /\ UNCHANGED <<streams, clock, calls, lastCall, txnVars, createVars,
                   bookVars,
                   submitVars, toolVars>>

\* auditService.getRecentTrades(limit)
CallGetRecentTrades(args, up) ==
    /\ query' = [op |-> "getRecentTrades", marketId |-> "m1", args |-> args,
                 up |-> up, out |-> getRecentTrades(streams, args, up)]
    /\ UNCHANGED <<streams, clock, calls, lastCall, txnVars, createVars,
                   bookVars,
                   submitVars, toolVars>>

\* auditService.getAuditLogRange(marketId, startTime, endTime)
CallGetAuditLogRange(marketId, startTime, endTime, up) ==
    /\ query' = [op |-> "getAuditLogRange", marketId |-> marketId,
                 args |-> <<startTime, endTime>>, up |-> up,
                 out |-> getAuditLogRange(streams, marketId, startTime, endTime, up)]
    /\ UNCHANGED <<streams, clock, calls, lastCall, txnVars, createVars,
                   bookVars,
                   submitVars, toolVars>>

\* auditService.getAuditLogStats(marketId)
CallGetAuditLogStats(marketId, up) ==
    /\ query' = [op |-> "getAuditLogStats", marketId |-> marketId, args |-> <<>>,
                 up |-> up, out |-> getAuditLogStats(streams, marketId, up)]
    /\ UNCHANGED <<streams, clock, calls, lastCall, txnVars, createVars,
                   bookVars,
                   submitVars, toolVars>>

\* the Redis server's clock advances
AuditTick ==
    /\ clock < MaxClock
    /\ clock' = clock + 1
    /\ UNCHANGED <<streams, calls, lastCall, query, txnVars, createVars,
                   bookVars,
                   submitVars, toolVars>>

\* the limit arguments the driver passes: none, or a number
LimitArgs == {<<>>} \cup {<<n>> : n \in -1 .. MaxLimit}

NextAudit ==
    \/ \E marketId \in BookMarkets, timestamp \in 1 .. MaxTs,
          price \in AuditPrices, failAt \in 0 .. 4 :
           CallLogOrderMatch(marketId, timestamp, price, failAt)
    \/ \E price \in AuditPrices, failAt \in 0 .. 4 :
           CallLogOrderMatchAgain(price, failAt)
    \/ AuditTick

SpecAudit == Init /\ [][NextAudit]_vars

\* the AuditService under a driver that logs and queries; here a new trade
\* has a price of one tick, only the repeated call changes the price, and the
\* connection does not fail in the middle of a logOrderMatch call
NextAuditQuery ==
    \/ \E marketId \in BookMarkets, timestamp \in 1 .. MaxTs :
           CallLogOrderMatch(marketId, timestamp, 1, 0)
    \/ \E price \in AuditPrices : CallLogOrderMatchAgain(price, 0)
    \/ AuditTick
    \/ \E marketId \in BookMarkets, args \in LimitArgs, up \in BOOLEAN :
           CallGetAuditLog(marketId, args, up)
    \/ \E args \in LimitArgs, up \in BOOLEAN : CallGetRecentTrades(args, up)
    \/ \E marketId \in BookMarkets, startTime \in 0 .. MaxTs,
          endTime \in 0 .. MaxTs, up \in BOOLEAN :
           CallGetAuditLogRange(marketId, startTime, endTime, up)
    \/ \E marketId \in BookMarkets, up \in BOOLEAN :
           CallGetAuditLogStats(marketId, up)

SpecAuditQuery == Init /\ [][NextAuditQuery]_vars

\* the AuditService with LongLog trades already logged: a further call and
\* getAuditLog with limits around MAX_LIMIT
LongLimitArgs == {<<>>} \cup {<<n>> : n \in (MAX_LIMIT - 1) .. (MAX_LIMIT + 2)}
NextAuditLong ==
    \/ \E marketId \in BookMarkets, timestamp \in 1 .. MaxTs,
          price \in AuditPrices, failAt \in 0 .. 4 :
           calls < 1 /\ CallLogOrderMatch(marketId, timestamp, price, failAt)
    \/ \E marketId \in BookMarkets, args \in LongLimitArgs, up \in BOOLEAN :
           CallGetAuditLog(marketId, args, up)

InitLong ==
    /\ InitBook /\ InitSubmit /\ InitAuditLong /\ InitTxn /\ InitCreate
    /\ InitSeed /\ InitRetry
SpecAuditLong == InitLong /\ [][NextAuditLong]_vars

\* ------------------------------ DatabaseService.transaction under a driver
\* db.transaction(operations) is called with a closure
CallTransaction(closure) ==
    /\ txn.state = "idle"
    /\ txn' = [NoTxn EXCEPT !.state = "running", !.closure = closure]
    /\ UNCHANGED <<auditVars, createVars, bookVars,
                   submitVars, toolVars>>

\* the call runs to its end
RunTransaction ==
    /\ txn.state = "running"
    /\ LET r == transaction(txn.closure)
       IN  txn' = [txn EXCEPT !.state = "done", !.attempts = r.attempts,
                              !.result = r.result]
    /\ UNCHANGED <<auditVars, createVars, bookVars,
                   submitVars, toolVars>>

\* the caller has its result or its error
TransactionDone ==
    /\ txn.state = "done"
    /\ txn' = [txn EXCEPT !.state = "idle"]
    /\ UNCHANGED <<auditVars, createVars, bookVars,
                   submitVars, toolVars>>

NextTransaction ==
    \/ \E closure \in Closures : CallTransaction(closure)
    \/ RunTransaction
    \/ TransactionDone

SpecTransaction == Init /\ [][NextTransaction]_vars

\* ------------------------------------------- the order-creation route
\* A request arrives; the body schema is checked before the handler runs and
\* a body it refuses is answered 400.
PostOrder(body) ==
    /\ h7.pc = "idle"
    /\ Len(created) < MaxCreated
    /\ h7' = IF schemaAccepts(body)
             THEN [pc |-> "assert", body |-> body, code |-> 0]
             ELSE [pc |-> "reply", body |-> body, code |-> 400]
    /\ UNCHANGED <<market, now, created, auditVars, txnVars, bookVars,
                   submitVars, toolVars>>

\* await assertValidOrder(orderInput): reads the Market row and throws
\* OrderValidationError (400) when the order is not valid
AssertValidOrder ==
    /\ h7.pc = "assert"
    /\ h7' = IF assertValidOrder(h7.body, market, now)
             THEN [h7 EXCEPT !.pc = "create"]
             ELSE [h7 EXCEPT !.pc = "reply", !.code = 400]
    /\ UNCHANGED <<market, now, created, auditVars, txnVars, bookVars,
                   submitVars, toolVars>>

\* await prisma.order.create(...): the row is written (201), or the database
\* fails (500)
OrderCreate(dbOk) ==
    /\ h7.pc = "create"
    /\ IF dbOk
       THEN /\ created' = Append(created, createOrderData(h7.body))
            /\ h7' = [h7 EXCEPT !.pc = "reply", !.code = 201]
       ELSE /\ h7' = [h7 EXCEPT !.pc = "reply", !.code = 500]
            /\ UNCHANGED created
    /\ UNCHANGED <<market, now, auditVars, txnVars, bookVars,
                   submitVars, toolVars>>

\* the reply is sent
ReplyOrder ==
    /\ h7.pc = "reply"
    /\ h7' = NoHandler
    /\ UNCHANGED <<market, now, created, auditVars, txnVars, bookVars,
                   submitVars, toolVars>>

\* the market is resolved or cancelled by the oracle side
CloseMarket(status) ==
    /\ market.status = "ACTIVE"
    /\ market' = [market EXCEPT !.status = status]
    /\ UNCHANGED <<now, created, h7, auditVars, txnVars, bookVars,
                   submitVars, toolVars>>

\* time passes
TickNow ==
    /\ now < MaxNow
    /\ now' = now + 1
    /\ UNCHANGED <<market, created, h7, auditVars, txnVars, bookVars,
                   submitVars, toolVars>>

NextCreate ==
    \/ \E body \in CreateBodies : PostOrder(body)
    \/ AssertValidOrder
    \/ \E dbOk \in BOOLEAN : OrderCreate(dbOk)
    \/ ReplyOrder
    \/ \E status \in {"RESOLVED", "CANCELLED"} : CloseMarket(status)
    \/ TickNow

SpecCreate == Init /\ [][NextCreate]_vars

\* ------------------------------------------- the seed script under a driver
\* seed(options) with NODE_ENV = env
CallSeed(env, clearFirst, failAt) ==
    /\ seeded.runs < MaxSeedRuns
    /\ LET r == seed(db, env, clearFirst, failAt)
       IN  /\ db' = r.db
           /\ seeded' = [runs |-> seeded.runs + 1, ok |-> r.ok, env |-> env,
                         clearFirst |-> clearFirst]
    /\ UNCHANGED <<auditVars, txnVars, createVars, retryVars, bookVars,
                   submitVars>>

NextSeed ==
    \E env \in SeedEnvs, clearFirst \in ClearOptions,
       failAt \in 0 .. Len(seedData) : CallSeed(env, clearFirst, failAt)

SpecSeed == Init /\ [][NextSeed]_vars

\* ------------------------------------- AuditLogService under a driver
\* logTrade(trade) or getAuditLog(marketId, limit): the argument is validated,
\* then the Redis command goes through retryWithBackoff
CallOperation(op, valid) ==
    /\ retry.pc \in {"idle", "returned", "thrown"}
    /\ op = "logTrade" => logged < MaxLogged
    /\ retry' = IF valid THEN [NoRetry EXCEPT !.pc = "try", !.op = op]
                ELSE [NoRetry EXCEPT !.pc = "thrown", !.op = op,
                                     !.out = "VALIDATION_ERROR"]
    /\ UNCHANGED <<logged, auditVars, txnVars, createVars, seedVars, bookVars,
                   submitVars>>

\* a plausible slip: the loop does not break after the last attempt
RetryAttemptNoBreak(result) ==
    /\ retry.pc = "try"
    /\ IF result = "ok"
       THEN /\ retry' = [retry EXCEPT !.pc = "returned", !.out = "ok",
                                      !.invocations = @ + 1]
            /\ logged' = IF retry.op = "logTrade" THEN logged + 1 ELSE logged
       ELSE /\ retry' = [retry EXCEPT !.pc = "sleep", !.lastError = result,
                                      !.invocations = @ + 1,
                                      !.delay = backoffDelay(retry.attempt)]
            /\ UNCHANGED logged
    /\ UNCHANGED <<auditVars, txnVars, createVars, seedVars, bookVars,
                   submitVars>>

\* one pass of the for loop of retryWithBackoff: await operation(); a result
\* is returned, an error is kept in lastError and, unless this was attempt
\* maxRetries, followed by the backoff delay
RetryAttempt(result) ==
    /\ retry.pc = "try"
    /\ IF result = "ok"
       THEN /\ retry' = [retry EXCEPT !.pc = "returned", !.out = "ok",
                                      !.invocations = @ + 1]
            /\ logged' = IF retry.op = "logTrade" THEN logged + 1 ELSE logged
       ELSE /\ retry' =
                 IF retry.attempt = MAX_RETRIES
                 THEN [retry EXCEPT !.pc = "thrown", !.lastError = result,
                                    !.invocations = @ + 1,
                                    !.out = "MAX_RETRIES_EXCEEDED"]
                 ELSE [retry EXCEPT !.pc = "sleep", !.lastError = result,
                                    !.invocations = @ + 1,
                                    !.delay = backoffDelay(retry.attempt)]
            /\ UNCHANGED logged
    /\ UNCHANGED <<auditVars, txnVars, createVars, seedVars, bookVars,
                   submitVars>>

\* the setTimeout of the backoff fires: attempt++
RetryWake ==
    /\ retry.pc = "sleep"
    /\ retry' = [retry EXCEPT !.pc = "try", !.attempt = @ + 1]
    /\ UNCHANGED <<logged, auditVars, txnVars, createVars, seedVars, bookVars,
                   submitVars>>

NextRetry ==
    \/ \E op \in RetryOps, valid \in BOOLEAN : CallOperation(op, valid)
    \/ \E result \in {"ok"} \cup RetryErrors : RetryAttempt(result)
    \/ RetryWake

\* the promise of an attempt settles and the timer of a delay fires
SpecRetry ==
    /\ Init /\ [][NextRetry]_vars
    /\ WF_vars(\E result \in {"ok"} \cup RetryErrors : RetryAttempt(result))
    /\ WF_vars(RetryWake)

\* ------------------------------------------------- OrderBook properties
Residents(b, side) == {i \in DOMAIN b.orderMap : b.orderMap[i].side = side}
BetterPrice(side, p1, p2) == IF side = "bid" THEN p1 > p2 ELSE p1 < p2
SeqRange(s) == {s[i] : i \in 1 .. Len(s)}
SeqWithout(s, v) == SelectSeq(s, LAMBDA x : x # v)

\* s lists every resident order of the side exactly once
ExactlyResidents(b, side, s) ==
    /\ SeqRange(s) = Residents(b, side)
    /\ Len(s) = Cardinality(Residents(b, side))

\* s is in price-time priority: better price first, then earlier addOrder call
\* (the driver's ids are arrival stamps)
PriceTimeOrdered(b, side, s) ==
    \A i, j \in 1 .. Len(s) :
        i < j => \/ BetterPrice(side, b.orderMap[s[i]].price, b.orderMap[s[j]].price)
                 \/ /\ b.orderMap[s[i]].price = b.orderMap[s[j]].price
                    /\ s[i] < s[j]

\* C5: while a taker is matched by walking iterateOrders(opposite side) and
\* every filled maker is removed before the next one is requested, no maker has
\* received a trade while an earlier-arrived maker of another user at the same
\* price still rests with quantity > 0.
C5_FifoWithinLevel ==
    walk.active =>
        \A k \in 1 .. Len(walk.trades) :
            \A i \in Residents(book, OppositeSide(walk.side)) :
                ~ /\ book.orderMap[i].price = walk.trades[k].price
                  /\ book.orderMap[i].userAddress # walk.user
                  /\ book.orderMap[i].quantity > 0
                  /\ i < walk.trades[k].makerOrderId

\* C6: an iteration whose consumer removed (some of) the orders it was just
\* given has, once finished, yielded every order that rested on the side when
\* it began, once each and in price-time priority.
C6_IterationToleratesRemoval ==
    (gen.state = "completed" /\ ~walk.active) => yielded = snap

\* C7: on an unmodified book iterateOrders(side) yields every resident order of
\* the side exactly once in price-time priority, getOrdersAtPrice returns the
\* arrival order of the level, and removing any order leaves the relative
\* order of the others unchanged.
C7_IterationPriceTime ==
    \A side \in BookSides :
        LET s == iterateOrders(book, side)
        IN  /\ ExactlyResidents(book, side, s)
            /\ PriceTimeOrdered(book, side, s)
            /\ \A p \in BookPrices :
                   getOrdersAtPrice(book, side, p) =
                       SelectSeq(s, LAMBDA i : book.orderMap[i].price = p)
            /\ \A i \in Residents(book, side) :
                   /\ iterateOrders(removeOrder(book, i), side) = SeqWithout(s, i)
                   /\ getOrdersAtPrice(removeOrder(book, i), side, book.orderMap[i].price)
                        = SeqWithout(getOrdersAtPrice(book, side, book.orderMap[i].price), i)

\* a finished iteration over a side with two price levels, one of them holding
\* two orders, none removed on the way
C7_Witness ==
    /\ gen.state = "completed"
    /\ ~walk.active
    /\ Len(yielded) = 3
    /\ yielded = iterateOrders(book, gen.side)
    /\ Len(PricesOf(book, gen.side)) = 2
    /\ \E p \in BookPrices : Len(getOrdersAtPrice(book, gen.side, p)) = 2

\* ------------------------------------------------ POST /orders properties
\* committed Order rows that rest: status OPEN or PARTIALLY_FILLED
RestingRows == {id \in DOMAIN orders : orders[id].status \in {"OPEN", "PARTIALLY_FILLED"}}
NoOpenTransaction == \A p \in Procs : pc[p] \notin InTxPcs
RECURSIVE sumQuantity(_)
sumQuantity(ts) == IF Len(ts) = 0 THEN 0 ELSE ts[1].quantity + sumQuantity(Tail(ts))
\* what rests in the cache for an order id
restingQuantity(c, id) == IF id \in DOMAIN c.orderMap THEN c.orderMap[id].quantity ELSE 0
\* entries of an audit stream that carry a trade id
auditEntries(stream, tradeId) == {k \in 1 .. Len(stream) : stream[k].tradeId = tradeId}
StatusConsistent(row) ==
    /\ row.filledQuantity <= row.quantity
    /\ row.status = "FILLED" <=> row.filledQuantity = row.quantity
    /\ row.status = "PARTIALLY_FILLED" <=>
           (0 < row.filledQuantity /\ row.filledQuantity < row.quantity)
    /\ row.status = "OPEN" <=> row.filledQuantity = 0

\* C1: whenever no transaction is open, the orders resident in the order-book
\* cache, with their remaining quantities, are exactly the committed Order rows
\* with status OPEN or PARTIALLY_FILLED (remaining = quantity - filledQuantity).
C1_BookInSyncWithRows ==
    NoOpenTransaction =>
        /\ DOMAIN cache.orderMap = RestingRows
        /\ \A id \in RestingRows :
               restingQuantity(cache, id) = orders[id].quantity - orders[id].filledQuantity

\* C2: no two handlers serving the same user (and market) are at the same time
\* between the acquisition of the admission lock and its release.
C2_OneSubmitPerUserAndMarket ==
    \A p, q \in Procs :
        (p # q /\ pc[p] \in LockedPcs /\ pc[q] \in LockedPcs)
            => req[p].userAddress # req[q].userAddress

\* C3: the match-and-mutate sections (from the matching read of the book to the
\* end of the submit's book mutations) of two submits of different users on the
\* book of (m1, YES) never overlap.
C3_MatchSectionsSerialized ==
    \A p, q \in Procs :
        (p # q /\ req[p].userAddress # req[q].userAddress)
            => ~(pc[p] = "process" /\ pc[q] = "process")

\* C4: every committed Trade row has exactly one entry carrying its trade id in
\* the market's audit stream and exactly one in the global audit stream.
C4_EveryTradeAudited ==
    \A k \in 1 .. Len(trades) :
        /\ Cardinality(auditEntries(audit.market, trades[k].id)) = 1
        /\ Cardinality(auditEntries(audit.global, trades[k].id)) = 1

\* C8: when a submit is about to commit, the quantities of the trades it
\* created plus the taker's residual resting in the book equal the taker's
\* quantity, the filledQuantity stored for the taker equals the sum of the
\* trade quantities, and 0 <= filledQuantity <= quantity.
C8_TakerQuantityConserved ==
    \A p \in Procs :
        pc[p] = "commit" =>
            LET t == tx[p]
                row == t.wOrders[t.orderId]
            IN  /\ sumQuantity(t.trades) + restingQuantity(cache, t.orderId)
                     = req[p].quantity
                /\ row.filledQuantity = sumQuantity(t.trades)
                /\ 0 <= row.filledQuantity
                /\ row.filledQuantity <= row.quantity
                /\ row.quantity = req[p].quantity

\* a taker of quantity 2 about to commit with one trade and a resting residual
C8_Witness ==
    \E p \in Procs :
        /\ pc[p] = "commit"
        /\ Len(tx[p].trades) = 1
        /\ req[p].quantity = 2
        /\ restingQuantity(cache, tx[p].orderId) = 1

\* C9: no trade, committed or created by an open transaction, has the same
\* address as maker and taker; a submit about to commit has traded with none of
\* its user's own orders, and its residual rests in the book.
C9_NoSelfTrade ==
    /\ \A k \in 1 .. Len(trades) : trades[k].makerId # trades[k].takerId
    /\ \A p \in Procs :
           /\ \A k \in 1 .. Len(tx[p].trades) :
                  /\ tx[p].trades[k].makerId # tx[p].trades[k].takerId
                  /\ tx[p].trades[k].takerId = req[p].userAddress
           /\ pc[p] = "commit" =>
                  /\ \A id \in DOMAIN tx[p].wOrders \ {tx[p].orderId} :
                         orderRow(tx[p], id).userId # req[p].userAddress
                  /\ req[p].quantity - tx[p].totalFilledQuantity
                       = restingQuantity(cache, tx[p].orderId)

\* a submit about to commit whose user has an order resting on the opposite
\* side: no trade, both orders rest
C9_Witness ==
    \E p \in Procs :
        /\ pc[p] = "commit"
        /\ Len(tx[p].trades) = 0
        /\ tx[p].orderId \in DOMAIN cache.orderMap
        /\ \E id \in DOMAIN cache.orderMap :
               /\ id \in DOMAIN orders
               /\ cache.orderMap[id].userAddress = req[p].userAddress
               /\ cache.orderMap[id].side = OppositeSide(BookSide(req[p].side))
               /\ cache.orderMap[id].quantity = orders[id].quantity

\* C10: every committed Order row has filledQuantity <= quantity and the status
\* its filledQuantity calls for.
C10_StatusMatchesFilled ==
    \A id \in DOMAIN orders : StatusConsistent(orders[id])

\* a step in which the transaction of handler p commits
Committing(p) == pc[p] = "commit" /\ pc'[p] = "release" /\ orders' # orders

\* C11: after every submit that committed, no order whose row is FILLED (or
\* CANCELLED) is resident in the order book; a taker that is not fully filled
\* rests with exactly quantity - filledQuantity, a fully filled one does not
\* rest.
C11_NoFilledOrderResident ==
    [][\A p \in Procs :
         Committing(p) =>
           /\ \A id \in DOMAIN cache'.orderMap \cap DOMAIN orders' :
                  orders'[id].status \notin {"FILLED", "CANCELLED"}
           /\ LET row == orders'[tx[p].orderId]
              IN  restingQuantity(cache', tx[p].orderId)
                      = row.quantity - row.filledQuantity]_vars

\* a submit has completed with 201; a filled order is gone from the book and a
\* partially filled one rests with its remaining quantity
C11_Witness ==
    \E p \in Procs :
        /\ pc[p] = "release"
        /\ tx[p].code = 201
        /\ \E id \in DOMAIN orders :
               orders[id].status = "FILLED" /\ id \notin DOMAIN cache.orderMap
        /\ \E id \in DOMAIN orders :
               /\ orders[id].status = "PARTIALLY_FILLED"
               /\ restingQuantity(cache, id) = 1
               /\ orders[id].quantity - orders[id].filledQuantity = 1

\* the order state machine OPEN -> PARTIALLY_FILLED* -> FILLED | CANCELLED
TerminalStatuses == {"FILLED", "CANCELLED"}
statusMayFollow(old, new) ==
    \/ old = "OPEN"
    \/ old = "PARTIALLY_FILLED" /\ new # "OPEN"
    \/ old \in TerminalStatuses /\ new = old

\* C12: the status of a committed Order row only moves along OPEN ->
\* PARTIALLY_FILLED* -> FILLED | CANCELLED, and a row that is FILLED or
\* CANCELLED keeps its status and its filledQuantity in every later step.
C12_TerminalStatusIsFinal ==
    [][\A id \in DOMAIN orders :
         /\ id \in DOMAIN orders'
         /\ statusMayFollow(orders[id].status, orders'[id].status)
         /\ orders[id].status \in TerminalStatuses =>
                orders'[id].filledQuantity = orders[id].filledQuantity]_vars

\* a submit is about to commit while a FILLED row of an earlier submit exists
C12_Witness ==
    \E p \in Procs :
        /\ pc[p] = "commit"
        /\ \E id \in DOMAIN orders :
               orders[id].status = "FILLED" /\ id < tx[p].orderId

\* C13: a request that fails validation changes no state: validation comes
\* before the admission lock, so no handler has set the lock key (and entered
\* the transaction) for a request that does not pass validation.
C13_InvalidRequestChangesNothing ==
    \A p \in Procs :
        (pc[p] = "validate" /\ lock[req[p].userAddress] = p)
            => validate(req[p], marketStatus)

\* C16: a handler that acquired the admission lock has released it when it
\* finishes, whatever the reply (201, 400, 500): no handler that is idle or was
\* rejected owns a lock key; a request rejected with 429 neither sets nor
\* deletes a key.
C16_LockReleasedOnEveryPath ==
    /\ [](\A p \in Procs :
            pc[p] \in {"idle", "rejected"} => \A u \in Addresses : lock[u] # p)
    /\ [][\A p \in Procs :
            /\ (pc[p] = "release" /\ pc'[p] = "idle") =>
                   \A u \in Addresses : lock'[u] # p
            /\ (pc'[p] # pc[p] /\ "rejected" \in {pc[p], pc'[p]}) =>
                   lock' = lock]_vars

\* a submit failed after its order was put in the book and has finished: the
\* order has no committed row, and no lock key is left
C16_Witness ==
    /\ \A p \in Procs : pc[p] = "idle"
    /\ \A u \in Addresses : lock[u] = "none"
    /\ orders = EmptyMap
    /\ DOMAIN cache.orderMap # {}

\* a step in which handler p leaves prisma.$transaction
LeavingTransaction(p) == pc[p] \in InTxPcs /\ pc'[p] = "release"
\* all rows the transaction of p wrote are committed by the step
AllPersisted(p) ==
    /\ tx[p].orderId \in DOMAIN orders'
    /\ \A id \in DOMAIN tx[p].wOrders :
           id \in DOMAIN orders' /\ orders'[id] = tx[p].wOrders[id]
    /\ \A id \in DOMAIN orders \ DOMAIN tx[p].wOrders :
           id \in DOMAIN orders' /\ orders'[id] = orders[id]
    /\ trades' = trades \o tx[p].trades
    /\ \A u \in Addresses :
           positions'[u] = IF u \in DOMAIN tx[p].wPos THEN tx[p].wPos[u]
                                                     ELSE positions[u]
\* nothing is committed by the step
NonePersisted == UNCHANGED <<orders, trades, positions>>

\* C17 as stated: whenever the handler answers 500, no Order row, Trade row or
\* Position change of the request is persisted.
C17_NothingPersistedOn500 ==
    [][\A p \in Procs :
         (LeavingTransaction(p) /\ tx'[p].code = 500) => NonePersisted]_vars

\* C17 amended: a 500 that comes from a failure inside the transaction
\* persists nothing of the request; the only other 500 is a failure to sign the
\* receipt after the transaction committed, and then the order row, the trades
\* and the position changes of the request are all persisted.
C17_NothingPersistedOn500UnlessSigning ==
    [][\A p \in Procs :
         (LeavingTransaction(p) /\ tx'[p].code = 500) =>
             \/ NonePersisted
             \/ pc[p] = "commit" /\ AllPersisted(p)]_vars

\* a submit was answered 500 after it had updated a maker: nothing of it is
\* committed (the maker's row is still OPEN and unfilled, there is no trade)
C17_Witness ==
    \E p \in Procs :
        /\ pc[p] = "release"
        /\ tx[p].code = 500
        /\ trades = <<>>
        /\ \E id \in DOMAIN orders :
               /\ orders[id].status = "OPEN"
               /\ restingQuantity(cache, id) < orders[id].quantity

C14_OrderOnlyForLiveMarket ==
    [][Len(created') > Len(created) =>
         (market.status = "ACTIVE" /\ now < market.endTime)]_vars

\* price strictly between 0 and 1, quantity a positive integer
InRange(price, quantity) ==
    /\ 0 < price
    /\ price < PriceScale
    /\ quantity.half = 0
    /\ quantity.whole > 0

settlingAttempt(closure) ==
    IF \E k \in 1 .. 3 : closure[k] # "conflict"
    THEN CHOOSE k \in 1 .. 3 :
             closure[k] # "conflict" /\ \A j \in 1 .. (k - 1) : closure[j] = "conflict"
    ELSE 3

\* C18: the transaction call re-runs a closure that fails with a serialization
\* conflict, up to 3 attempts in total, and returns the result of the first
\* attempt that succeeds; any other error ends the call at once and is thrown.
C18_RetriesSerializationConflicts ==
    txn.state = "done" =>
        LET k == settlingAttempt(txn.closure)
        IN  /\ txn.attempts = k
            /\ txn.result = IF txn.closure[k] = "ok" THEN "returned" ELSE "thrown"

\* --------------------------------------------- AuditService properties
\* C20: a logOrderMatch(trade) call that succeeded has appended exactly one
\* entry carrying the trade's id to the stream of trade.marketId and exactly
\* one to the global stream.
C20_OneEntryPerStream ==
    [][(calls' = calls + 1 /\ lastCall'.ok) =>
          LET trade == lastCall'.trade
              marketStream == getMarketStream(trade.marketId)
          IN  /\ Cardinality(auditEntries(streams'[marketStream], trade.id))
                     = Cardinality(auditEntries(streams[marketStream], trade.id)) + 1
              /\ Cardinality(auditEntries(streams'[globalStream], trade.id))
                     = Cardinality(auditEntries(streams[globalStream], trade.id)) + 1]_vars

\* the ids of a stream strictly increase in append order
idsIncrease(stream) ==
    \A i, j \in 1 .. Len(stream) : i < j => idLess(stream[i].id, stream[j].id)
\* the trades a caller can pass to logOrderMatch next
NextTrades ==
    [id : {calls + 1}, marketId : BookMarkets, timestamp : 1 .. MaxTs,
     price : AuditPrices]
lastEntry(stream) == stream[Len(stream)]

\* C21: in every audit stream the entry ids strictly increase in append
\* order, and a logOrderMatch call whose intended id <timestamp>-0 is not
\* greater than the last id of the market stream or of the global stream
\* still logs the trade, under an auto-generated id, rather than failing.
C21_IdsIncreaseAndCollisionsLogged ==
    /\ \A key \in StreamKeys : idsIncrease(streams[key])
    /\ \A trade \in NextTrades :
           LET marketStream == getMarketStream(trade.marketId)
               streamId == <<trade.timestamp, 0>>
               r == logOrderMatch(streams, clock, trade, 0)
           IN  (\/ ~xaddAccepts(streams[marketStream], streamId)
                \/ ~xaddAccepts(streams[globalStream], streamId)) =>
                   /\ r.ok
                   /\ lastEntry(r.streams[marketStream]).tradeId = trade.id
                   /\ lastEntry(r.streams[globalStream]).tradeId = trade.id
                   /\ \A key \in StreamKeys : idsIncrease(r.streams[key])

\* a call met a collision and logged its trade under an auto-generated id
C21_Witness ==
    /\ lastCall.ok
    /\ LET marketStream == streams[getMarketStream(lastCall.trade.marketId)]
       IN  /\ Len(marketStream) >= 2
           /\ lastEntry(marketStream).tradeId = lastCall.trade.id
           /\ lastEntry(marketStream).id # <<lastCall.trade.timestamp, 0>>
           /\ lastEntry(streams[globalStream]).tradeId = lastCall.trade.id

\* stream s is a prefix of stream t
isPrefix(s, t) == Len(s) <= Len(t) /\ SubSeq(t, 1, Len(s)) = s

\* C22: every step leaves each entry of each stream, id and payload, where it
\* is; logging once more a trade id that was logged before, with another
\* price, adds an entry; a query changes no stream.
C22_EntriesImmutable ==
    [][/\ \A key \in StreamKeys : isPrefix(streams[key], streams'[key])
       /\ (calls' = calls + 1 /\ lastCall'.ok
              /\ lastCall'.trade.id = lastCall.trade.id) =>
             LET marketStream == getMarketStream(lastCall'.trade.marketId)
             IN  /\ Len(streams'[marketStream]) > Len(streams[marketStream])
                 /\ lastEntry(streams'[marketStream]).price = lastCall'.trade.price
       /\ (query' # query /\ query'.op # "none") => streams' = streams]_vars

\* a trade was logged twice, with two prices, and then the log was queried:
\* both entries are there, the older one with the older price
C22_Witness ==
    /\ query.op = "getAuditLog" /\ query.up
    /\ Len(query.out.entries) = 2
    /\ query.out.entries[1].tradeId = query.out.entries[2].tradeId
    /\ query.out.entries[1].price = 1
    /\ query.out.entries[2].price = 2

\* the oldest n entries of a stream
oldest(stream, n) == IF n <= 0 THEN <<>> ELSE SubSeq(stream, 1, Min(n, Len(stream)))

\* C23: getAuditLog(marketId, limit), answered by Redis, returns the oldest
\* min(limit, 1000, N) entries of the market's stream, N its length, oldest
\* first, with limit 100 when the caller gives none: nothing for a market
\* without entries and nothing of another market's stream.
C23_GetAuditLogOldestUpToLimit ==
    (query.op = "getAuditLog" /\ query.up) =>
        LET stream == streams[getMarketStream(query.marketId)]
            limit == IF query.args = <<>> THEN 100 ELSE query.args[1]
        IN  query.out.entries = oldest(stream, Min(limit, MAX_LIMIT))

\* C24: getAuditLogRange(marketId, start, end), answered by Redis, returns
\* exactly the entries of the market's stream whose id has a millisecond part
\* from start to end, whatever its sequence part, oldest first; none when
\* there is no such entry.
C24_RangeReturnsExactlyTheEntriesInRange ==
    (query.op = "getAuditLogRange" /\ query.up) =>
        LET stream == streams[getMarketStream(query.marketId)]
            startTime == query.args[1]
            endTime == query.args[2]
        IN  query.out.entries =
                SelectSeq(stream, LAMBDA e : startTime <= e.id[1] /\ e.id[1] <= endTime)

\* a range query returned some entries of the stream, not all, among them one
\* whose id has a sequence part above 0
C24_Witness ==
    /\ query.op = "getAuditLogRange" /\ query.up
    /\ Len(query.out.entries) > 0
    /\ Len(query.out.entries) < Len(streams[getMarketStream(query.marketId)])
    /\ \E k \in 1 .. Len(query.out.entries) : query.out.entries[k].id[2] > 0

\* C25: with Redis not answering, logOrderMatch fails and every query
\* (getAuditLog, getRecentTrades, getAuditLogRange, getAuditLogStats) throws
\* to its caller.
C25_UnavailableStoreSurfaces ==
    /\ \A trade \in NextTrades : ~logOrderMatch(streams, clock, trade, 1).ok
    /\ (query.op # "none" /\ ~query.up) => query.out.threw

\* ----------------------------------------------- OrderBook properties
\* C26: addOrder throws for every order whose id is resident or whose
\* (marketId, outcome) is not the book's, and the book after a throwing
\* addOrder is the book before it, in every part.
C26_AddOrderRejectsAndLeavesBook ==
    \A order \in BookOrderInputs :
        (\/ order.id \in DOMAIN book.orderMap
         \/ order.marketId # book.marketId
         \/ order.outcome # book.outcome) =>
            /\ addOrderThrows(book, order) # "none"
            /\ addOrder(book, order) = book

\* a book with two resident orders, for which a third order with a resident
\* id, in the book's market and outcome, is refused as a duplicate
C26_Witness ==
    /\ Cardinality(DOMAIN book.orderMap) >= 2
    /\ \E order \in BookOrderInputs :
           /\ order.id \in DOMAIN book.orderMap
           /\ order.price # book.orderMap[order.id].price
           /\ addOrderThrows(book, order) = "Order already exists"

\* C27: the bid price list is strictly descending and the ask price list
\* strictly ascending, so no price is twice in a list.
C27_PriceListsStrictlySorted ==
    /\ \A i, j \in 1 .. Len(book.bidPrices) :
           i < j => book.bidPrices[i] > book.bidPrices[j]
    /\ \A i, j \in 1 .. Len(book.askPrices) :
           i < j => book.askPrices[i] < book.askPrices[j]

\* after an order left the book, the bid side holds every price and the
\* higher bid was added after the lower one, so that its price was inserted in
\* front of the list
C27_Witness ==
    /\ Len(book.bidPrices) = PriceScale - 1
    /\ lastBookId > Cardinality(DOMAIN book.orderMap)
    /\ \E a, b \in Residents(book, "bid") :
           a < b /\ book.orderMap[a].price < book.orderMap[b].price

\* the resident order of a side that has the best price and, among those, was
\* added first (the driver's ids grow with every addOrder); NoOrder for a side
\* without orders
bestResident(b, side) ==
    LET ids == Residents(b, side)
    IN  IF ids = {} THEN NoOrder
        ELSE b.orderMap[CHOOSE id \in ids : \A other \in ids \ {id} :
                 \/ BetterPrice(side, b.orderMap[id].price, b.orderMap[other].price)
                 \/ (b.orderMap[id].price = b.orderMap[other].price /\ id < other)]

\* C28: getBestBid returns the earliest-added resident bid among those at the
\* highest bid price, getBestAsk the earliest-added resident ask among those
\* at the lowest ask price, and each returns null exactly when its side holds
\* no order.
C28_BestBidAskOldestAtTopPrice ==
    /\ getBestBid(book) = bestResident(book, "bid")
    /\ getBestAsk(book) = bestResident(book, "ask")
    /\ (getBestBid(book) = NoOrder) <=> (Residents(book, "bid") = {})
    /\ (getBestAsk(book) = NoOrder) <=> (Residents(book, "ask") = {})

\* two bids at the top price after an older bid was removed: the best bid is
\* not the first order ever added
C28_Witness ==
    /\ Len(book.bidPrices) = 1
    /\ Len(getOrdersAtPrice(book, "bid", book.bidPrices[1])) = 2
    /\ Residents(book, "ask") = {}
    /\ getBestBid(book).id = 2

\* the prices at which a side has resident orders, best first
RECURSIVE residentPrices(_, _, _)
residentPrices(b, side, left) ==
    IF left = {} THEN <<>>
    ELSE LET best == CHOOSE p \in left : \A q \in left \ {p} : BetterPrice(side, p, q)
         IN  <<best>> \o residentPrices(b, side, left \ {best})
RECURSIVE sumResident(_, _)
sumResident(b, ids) ==
    IF ids = {} THEN 0
    ELSE LET id == CHOOSE x \in ids : TRUE
         IN  b.orderMap[id].quantity + sumResident(b, ids \ {id})
\* what getDepth(n) is to return for a side, from the resident orders alone
depthOfResidents(b, side, n) ==
    LET prices == residentPrices(b, side,
                      {b.orderMap[id].price : id \in Residents(b, side)})
        at(p) == {id \in Residents(b, side) : b.orderMap[id].price = p}
    IN  [k \in 1 .. (IF n <= 0 THEN 0 ELSE Min(n, Len(prices))) |->
            [price |-> prices[k], quantity |-> sumResident(b, at(prices[k])),
             orderCount |-> Cardinality(at(prices[k]))]]

\* C29: getDepth(n) returns for each side the first min(n, number of levels)
\* price levels in priority order, each with the sum of the current quantities
\* of the orders resting at the price and their number.
C29_DepthAggregatesRestingOrders ==
    \A n \in -1 .. PriceScale :
        /\ getDepth(book, n).bids = depthOfResidents(book, "bid", n)
        /\ getDepth(book, n).asks = depthOfResidents(book, "ask", n)

\* a level of two bids of different quantities over a second bid level
C29_Witness ==
    /\ Len(getDepth(book, 2).bids) = 2
    /\ getDepth(book, 1).bids[1].orderCount = 2
    /\ getDepth(book, 1).bids[1].quantity = MaxQty + 1

\* C30: on each side a price is in the price list exactly when it has a
\* level, and exactly when a resident order of the side has that price; no
\* level is without orders.
C30_NoEmptyPriceLevel ==
    \A side \in BookSides : \A price \in BookPrices :
        LET listed == \E k \in 1 .. Len(PricesOf(book, side)) :
                          PricesOf(book, side)[k] = price
            resting == \E id \in Residents(book, side) :
                          book.orderMap[id].price = price
        IN  /\ listed <=> price \in DOMAIN LevelsOf(book, side)
            /\ listed <=> resting
            /\ price \in DOMAIN LevelsOf(book, side) =>
                   Len(LevelsOf(book, side)[price].orders) > 0

\* every id was added and one order is left: its level is the only one
C30_Witness ==
    /\ lastBookId = MaxBookId
    /\ Cardinality(DOMAIN book.orderMap) = 1
    /\ Len(book.bidPrices) + Len(book.askPrices) = 1

\* everything a caller can read from a book
observables(b) ==
    [bestBid |-> getBestBid(b), bestAsk |-> getBestAsk(b),
     depth |-> [n \in 0 .. PriceScale |-> getDepth(b, n)],
     ordersAtPrice |-> [side \in BookSides |->
                          [price \in BookPrices |-> getOrdersAtPrice(b, side, price)]],
     ordersByUser |-> [u \in Users |-> getOrdersByUser(b, u)],
     totalVolume |-> getTotalVolume(b),
     orderCount |-> getOrderCount(b)]

\* C31: for every order addOrder accepts, addOrder followed by removeOrder of
\* its id returns the order and leaves every observable of the book (best bid
\* and ask, depth, the order sequence of every level, the orders of every
\* user, total volume, order count) as before the add; removeOrder of an id
\* that is not resident returns null and changes nothing.
C31_AddThenRemoveRestores ==
    /\ \A order \in BookOrderInputs :
           addOrderThrows(book, order) = "none" =>
               LET added == addOrder(book, order)
               IN  /\ removeOrderRet(added, order.id) = [tag |-> "order", order |-> order]
                   /\ observables(removeOrder(added, order.id)) = observables(book)
                   /\ observables(added) # observables(book)
    /\ \A orderId \in BookIds \ DOMAIN book.orderMap :
           /\ removeOrderRet(book, orderId).tag = "null"
           /\ removeOrder(book, orderId) = book

\* a book of two orders that accepts a further order of a user it knows at a
\* price that has a level already
C31_Witness ==
    /\ Cardinality(DOMAIN book.orderMap) = 2
    /\ \E order \in BookOrderInputs :
           /\ addOrderThrows(book, order) = "none"
           /\ order.price \in DOMAIN LevelsOf(book, order.side)
           /\ order.userAddress \in DOMAIN book.userOrders

\* C32: updateOrderQuantity with a negative quantity fails with the
\* negative-quantity error for every order id, resident or not, and leaves the
\* book unchanged.
C32_NegativeQuantityAlwaysThrows ==
    \A orderId \in BookIds, newQuantity \in (0 - MaxQty) .. -1 :
        /\ updateOrderQuantityRet(book, orderId, newQuantity)
               = "Quantity cannot be negative"
        /\ updateOrderQuantity(book, orderId, newQuantity) = book

\* the number of orders held in the levels of both sides
levelOrderCount(b) ==
    Cardinality({<<side, price, k>> \in BookSides \X BookPrices \X (1 .. MaxBookId) :
        /\ price \in DOMAIN LevelsOf(b, side)
        /\ k <= Len(LevelsOf(b, side)[price].orders)})

\* C33: getOrdersByUser(u) lists exactly the resident orders of user u, each
\* once, and none for a user without resident orders; getOrderCount is the
\* number of orders held in all price levels.
C33_UserIndexAndCountMatchResidents ==
    /\ \A u \in Users :
           LET result == getOrdersByUser(book, u)
               mine == {id \in DOMAIN book.orderMap : book.orderMap[id].userAddress = u}
           IN  /\ {result[k].id : k \in 1 .. Len(result)} = mine
               /\ Len(result) = Cardinality(mine)
               /\ \A k \in 1 .. Len(result) : result[k] = book.orderMap[result[k].id]
    /\ getOrderCount(book) = levelOrderCount(book)

\* after an order left the book, one user has two resident orders and the
\* other has one
C33_Witness ==
    /\ lastBookId > Cardinality(DOMAIN book.orderMap)
    /\ \E u, v \in Users :
           Len(getOrdersByUser(book, u)) = 2 /\ Len(getOrdersByUser(book, v)) = 0

\* C40: updateOrderQuantity(orderId, q) with q > 0 on a resident order returns
\* true and changes only the order's quantity and its level's total, by q
\* minus the old quantity: the order keeps its level and its place in the
\* level's sequence, and every other order, every other level, the price
\* lists, the user index and the order count stay as they are.
C40_UpdateChangesOnlyQuantityAndTotal ==
    \A orderId \in DOMAIN book.orderMap, q \in 1 .. (MaxQty + 1) :
        LET order == book.orderMap[orderId]
            after == updateOrderQuantity(book, orderId, q)
            levels == LevelsOf(book, order.side)
        IN  /\ updateOrderQuantityRet(book, orderId, q) = "true"
            /\ after.orderMap = [book.orderMap EXCEPT ![orderId].quantity = q]
            /\ LevelsOf(after, order.side) =
                   [levels EXCEPT ![order.price].totalQuantity = @ + q - order.quantity]
            /\ LevelsOf(after, OppositeSide(order.side))
                   = LevelsOf(book, OppositeSide(order.side))
            /\ after.bidPrices = book.bidPrices
            /\ after.askPrices = book.askPrices
            /\ after.userOrders = book.userOrders
            /\ getOrderCount(after) = getOrderCount(book)

\* two orders share a level, the older one with a quantity an update can
\* raise or lower, next to a second level
C40_Witness ==
    /\ Len(book.bidPrices) = 2
    /\ \E price \in BookPrices :
           /\ Len(getOrdersAtPrice(book, "bid", price)) = 2
           /\ book.orderMap[getOrdersAtPrice(book, "bid", price)[1]].quantity = 1

\* ------------------------------------------------ position properties
\* the change of a user's share quantity in a step
positionDelta(u) == positions'[u].quantity - positions[u].quantity
RECURSIVE sumOver(_, _)
sumOver(f, set) ==
    IF set = {} THEN 0
    ELSE LET x == CHOOSE y \in set : TRUE IN f[x] + sumOver(f, set \ {x})
\* the quantity of the trades of a receipt in which u is the maker
RECURSIVE makerQuantity(_, _)
makerQuantity(ts, u) ==
    IF Len(ts) = 0 THEN 0
    ELSE (IF ts[1].makerId = u THEN ts[1].quantity ELSE 0) + makerQuantity(Tail(ts), u)

\* C34: the position changes one submit commits sum to zero over all users;
\* the taker's change is the total filled quantity, positive for a BUY and
\* negative for a SELL, and every maker's change is the quantity of its
\* trades with the opposite sign.
C34_PositionChangesBalance ==
    [][\A p \in Procs :
         Committing(p) =>
           LET taker == req[p].userAddress
               sign == IF req[p].side = "BUY" THEN 1 ELSE -1
           IN  /\ sumOver([u \in Addresses |-> positionDelta(u)], Addresses) = 0
               /\ positionDelta(taker) = sign * sumQuantity(tx[p].trades)
               /\ \A u \in Addresses \ {taker} :
                      positionDelta(u) = (0 - sign) * makerQuantity(tx[p].trades, u)]_vars

\* a submit that traded has committed: buyer and seller hold opposite
\* quantities
C34_Witness ==
    /\ Len(trades) >= 1
    /\ \E p \in Procs : pc[p] = "release" /\ tx[p].code = 201
    /\ \E u, v \in Addresses :
           /\ positions[u].quantity > 0
           /\ positions[v].quantity = 0 - positions[u].quantity

\* C35: a SELL of q shares at price p out of a position leaves the average
\* price (value / quantity) as it was, unless no share is left, and then the
\* average price is 0; a BUY makes it (old value + q * p) / (old quantity + q).
C35_SellKeepsAveragePrice ==
    \A u \in Addresses :
        \A q \in 1 .. MaxQty, price \in 1 .. PriceScale :
            LET pos == positions[u]
                sold == updatePosition(pos, q, q * price, FALSE)
                bought == updatePosition(pos, q, q * price, TRUE)
            IN  (pos.exists /\ pos.quantity > 0) =>
                    /\ bought.quantity = pos.quantity + q
                    /\ bought.value = pos.value + q * price
                    /\ q <= pos.quantity =>
                           /\ sold.quantity = pos.quantity - q
                           /\ sold.quantity = 0 => sold.value = 0
                           /\ sold.value * pos.quantity = sold.quantity * pos.value

\* ------------------------------------------------ lock release
\* C39: the release step deletes the admission-lock key only if the key still
\* holds the releasing submit's own token: every key held by another submit,
\* such as one that re-acquired the key after it expired, is left as it is,
\* and the submit's own key is deleted.
C39_ReleaseDeletesOwnTokenOnly ==
    [][\A p \in Procs :
         (pc[p] = "release" /\ pc'[p] = "idle") =>
             \A u \in Addresses :
                 lock'[u] = IF lock[u] = p /\ u = req[p].userAddress
                            THEN "none" ELSE lock[u]]_vars

\* a submit that committed is about to release while the key of its user,
\* expired in the meantime, carries the token of a later submit
C39_Witness ==
    \E p, q \in Procs :
        /\ p # q
        /\ pc[p] = "release"
        /\ tx[p].code = 201
        /\ lock[req[p].userAddress] = q
        /\ req[q].userAddress = req[p].userAddress
        /\ pc[q] \in InTxPcs \cup {"validate"}

\* ------------------------------------------------ stream ids and timestamps
\* the entries of a stream before entry k that carry the timestamp of entry k
earlierSameTimestamp(stream, k) ==
    Cardinality({j \in 1 .. (k - 1) : stream[j].timestamp = stream[k].timestamp})

\* C37: every trade is logged under <trade.timestamp>-<n>, n the number of
\* trades with this timestamp logged in the stream before it, so that
\* getAuditLogRange(marketId, s, e), answered by Redis, returns exactly the
\* logged trades of the market with s <= timestamp <= e.
C37_StreamIdCarriesTradeTimestamp ==
    /\ \A key \in StreamKeys : \A k \in 1 .. Len(streams[key]) :
           streams[key][k].id =
               <<streams[key][k].timestamp, earlierSameTimestamp(streams[key], k)>>
    /\ (query.op = "getAuditLogRange" /\ query.up) =>
           query.out.entries =
               SelectSeq(streams[getMarketStream(query.marketId)],
                         LAMBDA e : query.args[1] <= e.timestamp
                                       /\ e.timestamp <= query.args[2])

\* ------------------------------------------------ seed script
\* C36: a seed() that succeeds right after a seed() that succeeded, with the
\* same NODE_ENV and the same clearFirst option, leaves the numbers of
\* markets, orders and positions as they were, for every NODE_ENV and option.
C36_SeedIdempotent ==
    [][(/\ seeded'.runs = seeded.runs + 1
        /\ seeded.ok /\ seeded'.ok
        /\ seeded'.env = seeded.env
        /\ seeded'.clearFirst = seeded.clearFirst) => db' = db]_vars

\* ------------------------------------------------ retryWithBackoff
\* C38: retryWithBackoff ends, by returning or by throwing; it calls the
\* operation at most MAX_RETRIES + 1 = 4 times; the attempt that succeeds is
\* the last one made and its result is returned; the throw after the failure
\* of attempt MAX_RETRIES carries the code MAX_RETRIES_EXCEEDED.
C38_RetryTerminates ==
    /\ [](retry.invocations <= MAX_RETRIES + 1 /\ MAX_RETRIES + 1 = 4)
    /\ [][/\ (retry.pc = "try" /\ retry'.pc = "returned") =>
              /\ retry'.out = "ok"
              /\ retry'.invocations = retry.attempt + 1
          /\ (retry.pc = "returned" /\ retry' # retry) => retry'.invocations = 0
          /\ (retry.pc = "try" /\ retry'.pc = "thrown") =>
              /\ retry'.invocations = MAX_RETRIES + 1
              /\ retry'.out = "MAX_RETRIES_EXCEEDED"
          /\ (retry.pc = "try" /\ retry'.pc # "returned"
                 /\ retry'.invocations = MAX_RETRIES + 1) =>
              retry'.pc = "thrown"]_vars
    /\ (retry.pc = "try") ~> (retry.pc \in {"returned", "thrown"})

\* every attempt of a call failed and the call has thrown
C38_Witness ==
    /\ retry.pc = "thrown"
    /\ retry.out = "MAX_RETRIES_EXCEEDED"
    /\ retry.invocations = 4
    /\ retry.delay = 4000

====
